---- MODULE Spec2Model ----
(***************************************************************************)
(* Model of the screen-reading scripts of nfyg-api.                        *)
(*                                                                         *)
(*   SpecExtract : Total_Agatston_Extractor.main, i.e. extract_words       *)
(*                 followed by extract_total_agatston_score, applied to    *)
(*                 bounded sets of raw OCR tokens.                         *)
(*   Spec        : PatternExtractor.run_with_hotkey, one thread per hotkey *)
(*                 press, each running PatternExtractor.process_once.      *)
(*   SpecNumeric : SpecExtract's program on a Total word, an Agatston      *)
(*                 header and one token of any text up to MaxTextLen.      *)
(*   SpecPattern : ExtractorConfig.from_sources on bounded config and      *)
(*                 pattern documents, then matches and detect_pattern.     *)
(*   SpecMatch   : the same calls on one pattern with any anchor sequence  *)
(*                 up to MaxAnchors, over more images and origins.         *)
(*   SpecLive    : Spec with the started threads kept running.             *)
(*   SpecClassify: AgatstonScoreMaster._extract_from_roi followed by       *)
(*                 _classify_score, on bounded OCR readings.               *)
(*   SpecMaster  : start_listener of agatston_master.py and of its copy in *)
(*                 fat_calculation.py, one on_hotkey_press per press.      *)
(*   SpecFat     : FatValueExtractor.extract_fat_values on bounded OCR     *)
(*                 readings of the two regions.                            *)
(*   SpecRoi     : roi_finder.main, one on_click per mouse event.          *)
(*                                                                         *)
(* Texts are tuples of one-character strings.  center_x, center_y and the  *)
(* column centre are half-integers / rationals in the source; the model    *)
(* keeps them exact by scaling: cx2 = 2*center_x, the column centre is the *)
(* pair (sum2, n) standing for sum2/(2n), and a horizontal distance is     *)
(* carried as 2n times the source's distance.  n is fixed within one call, *)
(* so every comparison of two distances has the source's outcome (the      *)
(* float operations of the source are exact on these operands whenever the *)
(* exact values tie, and differ by far more than one ulp otherwise).       *)
(***************************************************************************)
EXTENDS Integers, Sequences, FiniteSets, TLC

----------------------------------------------------------------------------
(* Bounds *)

MaxWords == 5

MaxTriggers == 3

MaxTextLen == 3

MaxPatterns == 3

MaxAnchors == 2

MaxScoreLen == 3

MaxPresses == 2

MaxFatTokens == 2

MaxClicks == 3

MaxCoord == 1

----------------------------------------------------------------------------
(* Characters and the str methods the extractor uses *)

UpperChars == <<"A","B","C","D","E","F","G","H","I","J","K","L","M",
                "N","O","P","Q","R","S","T","U","V","W","X","Y","Z">>

LowerChars == <<"a","b","c","d","e","f","g","h","i","j","k","l","m",
                "n","o","p","q","r","s","t","u","v","w","x","y","z">>

AsciiDigits == <<"0","1","2","3","4","5","6","7","8","9">>

\* ARABIC-INDIC DIGIT THREE: matched by \d in a str pattern, not by [0-9].
UnicodeDigits == {"U+0663"}

IsSpace(c) == c \in {" ", "\t", "\n"}

IsAsciiDigit(c) == \E k \in 1..10 : AsciiDigits[k] = c

DigitValue(c) == (CHOOSE k \in 1..10 : AsciiDigits[k] = c) - 1

\* \d of the re module on str
IsReDigit(c) == IsAsciiDigit(c) \/ c \in UnicodeDigits

lower_char(c) ==
    IF \E k \in 1..26 : UpperChars[k] = c
    THEN LowerChars[CHOOSE k \in 1..26 : UpperChars[k] = c]
    ELSE c

lower(s) == [k \in 1..Len(s) |-> lower_char(s[k])]

RECURSIVE lstrip(_)
lstrip(s) == IF s # <<>> /\ IsSpace(Head(s)) THEN lstrip(Tail(s)) ELSE s

RECURSIVE rstrip(_)
rstrip(s) ==
    IF s # <<>> /\ IsSpace(s[Len(s)]) THEN rstrip(SubSeq(s, 1, Len(s) - 1)) ELSE s

strip(s) == rstrip(lstrip(s))

\* re.sub(r"\s+", " ", text): every maximal run of whitespace becomes one " "
RECURSIVE collapse_ws(_)
collapse_ws(s) ==
    IF s = <<>> THEN <<>>
    ELSE IF IsSpace(Head(s))
         THEN <<" ">> \o collapse_ws(lstrip(s))
         ELSE <<Head(s)>> \o collapse_ws(Tail(s))

_normalize(text) == lower(strip(collapse_ws(text)))

startswith(s, prefix) ==
    Len(s) >= Len(prefix) /\ SubSeq(s, 1, Len(prefix)) = prefix

TOTAL_LABEL == <<"t","o","t","a","l">>

AGATSTON_PREFIX == <<"a","g","a","t","s","t","o","n">>

----------------------------------------------------------------------------
(* numeric_pattern = [-+]?\d[\d,\.]*  and the digit stripping *)

\* can a match of numeric_pattern start at position i of s ?
MatchStartsAt(s, i) ==
    \/ IsReDigit(s[i])
    \/ s[i] \in {"-", "+"} /\ i < Len(s) /\ IsReDigit(s[i + 1])

\* greedy [\d,\.]* : last position of the run starting at i
RECURSIVE RunEnd(_, _)
RunEnd(s, i) ==
    IF i < Len(s) /\ (IsReDigit(s[i + 1]) \/ s[i + 1] \in {",", "."})
    THEN RunEnd(s, i + 1)
    ELSE i

\* numeric_pattern.search(text): the leftmost match, <<>> standing for None
numeric_search(s) ==
    IF \E i \in 1..Len(s) : MatchStartsAt(s, i)
    THEN LET i == CHOOSE j \in 1..Len(s) :
                     MatchStartsAt(s, j) /\ \A k \in 1..(j - 1) : ~MatchStartsAt(s, k)
             d == IF IsReDigit(s[i]) THEN i ELSE i + 1
         IN  SubSeq(s, i, RunEnd(s, d))
    ELSE <<>>

\* re.sub(r"[^0-9]", "", match.group())
strip_non_digits_before_point(s) ==
    LET points == { k \in 1..Len(s) : s[k] = "." }
        stop == IF points = {} THEN Len(s) + 1
                ELSE CHOOSE k \in points : \A j \in points : k <= j
    IN  SelectSeq(SubSeq(s, 1, stop - 1), IsAsciiDigit)

strip_non_digits(s) == SelectSeq(s, IsAsciiDigit)

\* int(digits) for a non-empty string of ASCII digits
RECURSIVE int_of_digits(_)
int_of_digits(d) ==
    IF d = <<>> THEN 0
    ELSE 10 * int_of_digits(SubSeq(d, 1, Len(d) - 1)) + DigitValue(d[Len(d)])

\* the "match / digits / continue" prefix shared by both search loops:
\* does the word yield a value at all ?
has_value(w) == strip_non_digits(numeric_search(w.text)) # <<>>

\* value = int(digits)
word_value_signed(w) ==
    LET m == numeric_search(w.text)
        v == int_of_digits(strip_non_digits(m))
    IN  IF m # <<>> /\ m[1] = "-" THEN 0 - v ELSE v

word_value(w) == int_of_digits(strip_non_digits(numeric_search(w.text)))

----------------------------------------------------------------------------
(* OCRWord and the Tabular Value Locator (Total_Agatston_Extractor.py)      *)
(* An OCRWord is a record [text, left, top, width, height, line_num,        *)
(* block_num]; conf, page_num and par_num are recorded by the source and    *)
(* read by none of the functions below.  A word's identity (the "is" of the *)
(* source) is its index in the word list.                                   *)

Ok(v) == [ok |-> TRUE, val |-> v]

Raise(e) == [ok |-> FALSE, err |-> e]

\* 2 * OCRWord.center_x
center_x2(w) == 2 * w.left + w.width

\* 2 * OCRWord.center_y
center_y2(w) == 2 * w.top + w.height

Abs(x) == IF x < 0 THEN -x ELSE x

\* extract_words: the loop over data["text"], then the emptiness test
extract_words_strip_only(raw) ==
    LET stripped == [k \in 1..Len(raw) |-> [raw[k] EXCEPT !.text = strip(raw[k].text)]]
    IN  IF stripped = <<>> THEN Raise("NoTextRecognized") ELSE Ok(stripped)

extract_words(raw) ==
    LET stripped == [k \in 1..Len(raw) |-> [raw[k] EXCEPT !.text = strip(raw[k].text)]]
        NonEmpty(w) == w.text # <<>>
        words == SelectSeq(stripped, NonEmpty)
    IN  IF words = <<>> THEN Raise("NoTextRecognized") ELSE Ok(words)

\* the predicate of the list comprehension of find_total_words
is_total_word_prefix(w) == startswith(_normalize(w.text), TOTAL_LABEL)

is_total_word(w) == _normalize(w.text) = TOTAL_LABEL

\* the predicate of the list comprehension of find_agatston_column_center
is_agatston_word_exact(w) == _normalize(w.text) = AGATSTON_PREFIX

is_agatston_word(w) == startswith(_normalize(w.text), AGATSTON_PREFIX)

\* [w for w in words if _normalize(w.text) == "total"], as word indices
RECURSIVE total_words_from(_, _)
total_words_from(words, i) ==
    IF i > Len(words) THEN <<>>
    ELSE (IF is_total_word(words[i]) THEN <<i>> ELSE <<>>)
         \o total_words_from(words, i + 1)

find_total_words(words) ==
    LET total_words == total_words_from(words, 1)
    IN  IF total_words = <<>> THEN Raise("RowLabelNotFound") ELSE Ok(total_words)

\* [w for w in words if _normalize(w.text).startswith("agatston")]
RECURSIVE agatston_words_from(_, _)
agatston_words_from(words, i) ==
    IF i > Len(words) THEN <<>>
    ELSE (IF is_agatston_word(words[i]) THEN <<i>> ELSE <<>>)
         \o agatston_words_from(words, i + 1)

RECURSIVE SumCenterX2(_, _)
SumCenterX2(words, idx) ==
    IF idx = <<>> THEN 0
    ELSE center_x2(words[Head(idx)]) + SumCenterX2(words, Tail(idx))

\* the centre sum(center_x)/len as the pair (sum2, n) = (2*sum, len)
column_center_first_only(words, agatston_words) ==
    [sum2 |-> center_x2(words[Head(agatston_words)]), n |-> 1]

column_center(words, agatston_words) ==
    [sum2 |-> SumCenterX2(words, agatston_words), n |-> Len(agatston_words)]

find_agatston_column_center(words) ==
    LET agatston_words == agatston_words_from(words, 1)
    IN  IF agatston_words = <<>> THEN Raise("ColumnLabelNotFound")
        ELSE Ok(column_center(words, agatston_words))

\* abs(w.center_x - agatston_center), times 2 * center.n
distance_x(w, center) == Abs(center.n * center_x2(w) - center.sum2)

\* the filter of the same_line comprehension
same_line_ignoring_block(w, total_word) == w.line_num = total_word.line_num

same_line(w, total_word) ==
    w.line_num = total_word.line_num /\ w.block_num = total_word.block_num

\* "closest_distance is None or distance < closest_distance"; None is <<>>
replaces_closest_farthest(distance, closest) ==
    closest = <<>> \/ distance > closest.distance

replaces_closest(distance, closest) ==
    closest = <<>> \/ distance < closest.distance

\* the inner loop of extract_candidates for the row anchor words[ti], from
\* word i on; closest is <<>> or [distance, value]
RECURSIVE closest_on_line(_, _, _, _, _)
closest_on_line(words, ti, center, i, closest) ==
    IF i > Len(words) THEN closest
    ELSE LET w == words[i]
             skip == \/ ~same_line(w, words[ti])
                     \/ i = ti
                     \/ ~has_value(w)
             distance == distance_x(w, center)
         IN  IF skip THEN closest_on_line(words, ti, center, i + 1, closest)
             ELSE IF replaces_closest(distance, closest)
                  THEN closest_on_line(words, ti, center, i + 1,
                                       [distance |-> distance, value |-> word_value(w)])
                  ELSE closest_on_line(words, ti, center, i + 1, closest)

\* the outer loop: one (distance, value) per row anchor that found a number
RECURSIVE extract_candidates(_, _, _)
extract_candidates(words, total_words, center) ==
    IF total_words = <<>> THEN <<>>
    ELSE LET closest == closest_on_line(words, Head(total_words), center, 1, <<>>)
         IN  (IF closest # <<>> THEN <<closest>> ELSE <<>>)
             \o extract_candidates(words, Tail(total_words), center)

\* list.sort(key=lambda item: item[0]): stable, ascending by distance
RECURSIVE insert_stable(_, _)
insert_stable(sorted, c) ==
    IF sorted = <<>> THEN <<c>>
    ELSE IF c.distance < Head(sorted).distance
         THEN <<c>> \o sorted
         ELSE <<Head(sorted)>> \o insert_stable(Tail(sorted), c)

RECURSIVE sort_by_distance_from(_, _)
sort_by_distance_from(sorted, rest) ==
    IF rest = <<>> THEN sorted
    ELSE sort_by_distance_from(insert_stable(sorted, Head(rest)), Tail(rest))

sort_by_distance_unsorted(candidates) == candidates

sort_by_distance(candidates) == sort_by_distance_from(<<>>, candidates)

\* 2 * y_threshold is compared with 2 * abs(center_y)
Y_THRESHOLD == 30

\* the loop of fallback_search from word i on; best is <<>> or [distance, value]
RECURSIVE fallback_best(_, _, _, _, _)
fallback_best(words, center, y_threshold, i, best) ==
    IF i > Len(words) THEN best
    ELSE LET w == words[i]
             skip == ~has_value(w) \/ Abs(center_y2(w)) > 2 * y_threshold
             distance == distance_x(w, center)
         IN  IF skip THEN fallback_best(words, center, y_threshold, i + 1, best)
             ELSE IF best = <<>> \/ distance < best.distance
                  THEN fallback_best(words, center, y_threshold, i + 1,
                                     [distance |-> distance, value |-> word_value(w)])
                  ELSE fallback_best(words, center, y_threshold, i + 1, best)

\* Optional[int]: <<>> is None, otherwise <<value>>
fallback_search_zero_is_none(words, center, y_threshold) ==
    LET best == fallback_best(words, center, y_threshold, 1, <<>>)
    IN  IF best # <<>> /\ best.value # 0 THEN <<best.value>> ELSE <<>>

fallback_search(words, center, y_threshold) ==
    LET best == fallback_best(words, center, y_threshold, 1, <<>>)
    IN  IF best # <<>> THEN <<best.value>> ELSE <<>>

\* extract_total_agatston_score.  Besides the returned value (or the error
\* raised) the record says which branch returned it and what the same-row
\* search found, so that the control flow is observable.
score_from_fallback_first(words, total_words, center) ==
    LET candidates == extract_candidates(words, total_words, center)
        fallback_value == fallback_search(words, center, Y_THRESHOLD)
    IN  IF fallback_value # <<>>
        THEN [ok |-> TRUE, val |-> fallback_value[1],
              path |-> "fallback", candidates |-> candidates]
        ELSE IF candidates # <<>>
             THEN [ok |-> TRUE, val |-> Head(sort_by_distance(candidates)).value,
                   path |-> "same_row", candidates |-> candidates]
             ELSE [ok |-> FALSE, err |-> "NoIntersectionValue",
                   path |-> "fallback", candidates |-> candidates]

score_from(words, total_words, center) ==
    LET candidates == extract_candidates(words, total_words, center)
        fallback_value == fallback_search(words, center, Y_THRESHOLD)
    IN  IF candidates # <<>>
        THEN [ok |-> TRUE, val |-> Head(sort_by_distance(candidates)).value,
              path |-> "same_row", candidates |-> candidates]
        ELSE IF fallback_value # <<>>
             THEN [ok |-> TRUE, val |-> fallback_value[1],
                   path |-> "fallback", candidates |-> candidates]
             ELSE [ok |-> FALSE, err |-> "NoIntersectionValue",
                   path |-> "fallback", candidates |-> candidates]

extract_total_agatston_score(words) ==
    LET total_words == find_total_words(words)
        agatston_center == find_agatston_column_center(words)
    IN  IF ~total_words.ok
        THEN [ok |-> FALSE, err |-> total_words.err, path |-> "none", candidates |-> <<>>]
        ELSE IF ~agatston_center.ok
             THEN [ok |-> FALSE, err |-> agatston_center.err, path |-> "none",
                   candidates |-> <<>>]
             ELSE score_from(words, total_words.val, agatston_center.val)

----------------------------------------------------------------------------
(* Inputs of SpecExtract: raw OCR tokens, with the column header around     *)
(* x = 100 (two header tokens average to 107.5), two report lines carrying  *)
(* a Total label, and numbers at horizontal distances 5, 20 and 50.         *)

Tok(text, left, top, width, height, line_num, block_num) ==
    [text |-> text, left |-> left, top |-> top, width |-> width,
     height |-> height, line_num |-> line_num, block_num |-> block_num]

TokenPool == <<
    Tok(<<"T","o","t","a","l">>,                 0, 100, 40, 10, 1, 1),
    Tok(<<" ","T","O","T","A","L","\t">>,        0, 120, 40, 10, 2, 1),
    Tok(<<"A","g","a","t","s","t","o","n">>,    80,  60, 40, 10, 3, 1),
    Tok(<<"A","G","A","T","S","T","O","N"," ","\t","s","c","o","r","e">>,
                                                95,  60, 40, 10, 3, 1),
    Tok(<<"1","2">>,                           140, 100, 20, 10, 1, 1),
    Tok(<<"1",",","2","3","4",".","5">>,        85, 100, 20, 10, 1, 1),
    Tok(<<"-","7">>,                           110, 100, 20, 10, 1, 1),
    Tok(<<"3","0","0">>,                        70, 120, 20, 10, 2, 1),
    Tok(<<"9">>,                                95,   0, 10, 10, 1, 2),
    Tok(<<"T","o","t","a","l","s">>,             0, 120, 40, 10, 2, 1),
    Tok(<<" ","\t">>,                           50, 100, 10, 10, 1, 1),
    Tok(<<"U+0663">>,                           90, 100, 20, 10, 1, 1),
    Tok(<<"S","c","o","r","e">>,                60, 100, 20, 10, 1, 1),
    Tok(<<"0">>,                               120,  10, 20, 10, 4, 1),
    Tok(<<"x","4","1","m","m">>,                90,  25, 20, 10, 5, 1),
    Tok(<<"8","8">>,                            95,  25, 10, 11, 5, 1),
    Tok(<<>>,                                    0,   0,  0,  0, 0, 0) >>

\* the tokens of TokenPool with index in S, in pool order
RECURSIVE PoolSeq(_, _)
PoolSeq(S, i) ==
    IF i > Len(TokenPool) THEN <<>>
    ELSE (IF i \in S THEN <<TokenPool[i]>> ELSE <<>>) \o PoolSeq(S, i + 1)

Reverse(s) == [k \in 1..Len(s) |-> s[Len(s) + 1 - k]]

RawInputs ==
    { IF rev THEN Reverse(PoolSeq(S, 1)) ELSE PoolSeq(S, 1) :
        S \in { T \in SUBSET (1..Len(TokenPool)) : Cardinality(T) <= MaxWords },
        rev \in BOOLEAN }

\* Inputs of SpecNumeric: a Total word, an Agatston header and one token of
\* any text over TokenChars, either on the Total line (away from the top
\* edge) or on a line of its own at the top edge.
TokenChars == {"1", "2", ",", ".", "-", "+", "a", "U+0663"}

TokenTexts ==
    UNION { [1..k -> TokenChars] : k \in 1..MaxTextLen }
    \cup { <<"1",",","2","3","4",".","5">>, <<"1",".","5">>,
           <<"1",",","2","3","4">>, <<"-","1","2">> }

NumericInputs ==
    { <<TokenPool[1], TokenPool[3], Tok(text, 90, 100, 20, 10, 1, 1)>> :
        text \in TokenTexts }
    \cup
    { <<TokenPool[1], TokenPool[3], Tok(text, 90, 0, 20, 10, 4, 1)>> :
        text \in TokenTexts }

----------------------------------------------------------------------------
(* Layout Pattern Matcher (Total_Agatston_Pattern_Extractor.py)             *)
(* An image is [size |-> <<width, height>>, pixel |-> [<<x, y>> -> colour]], *)
(* an anchor [x, y, color, tolerance], a pattern [name, priority, anchors]. *)

Min(a, b) == IF a <= b THEN a ELSE b

\* the generator abs(int(a) - int(b)) for a, b in zip(actual, expected)
channel_differences(actual, expected) ==
    [k \in 1..Min(Len(actual), Len(expected)) |-> Abs(actual[k] - expected[k])]

\* max(...) of a non-empty sequence
RECURSIVE max(_)
max(s) ==
    IF Len(s) = 1 THEN s[1]
    ELSE LET m == max(Tail(s)) IN IF s[1] >= m THEN s[1] ELSE m

\* max(abs(int(a) - int(b)) for a, b in zip(actual, expected)) <= tolerance
_color_within_tolerance_strict(actual, expected, tolerance) ==
    max(channel_differences(actual, expected)) < tolerance

_color_within_tolerance(actual, expected, tolerance) ==
    max(channel_differences(actual, expected)) <= tolerance

\* 0 <= rel_x < width and 0 <= rel_y < height
in_bounds_inclusive(rel_x, rel_y, size) ==
    0 <= rel_x /\ rel_x <= size[1] /\ 0 <= rel_y /\ rel_y <= size[2]

in_bounds(rel_x, rel_y, size) ==
    0 <= rel_x /\ rel_x < size[1] /\ 0 <= rel_y /\ rel_y < size[2]

\* image.getpixel(xy): IndexError outside the image
getpixel(image, xy) ==
    IF xy \in DOMAIN image.pixel THEN Ok(image.pixel[xy]) ELSE Raise("IndexError")

\* One call of PatternDefinition.matches as far as it has run: result is the
\* returned value (raised: getpixel's exception left the call instead),
\* examined the number of anchors the loop has taken up, sampled the
\* coordinates handed to getpixel, in order.
MatchRun(result, raised, examined, sampled) ==
    [result |-> result, raised |-> raised, examined |-> examined, sampled |-> sampled]

\* the loop of PatternDefinition.matches over the anchors from the i-th on
RECURSIVE anchors_run_any(_, _, _, _, _)
anchors_run_any(anchors, image, origin, i, sampled) ==
    IF i > Len(anchors) THEN MatchRun(FALSE, FALSE, i - 1, sampled)
    ELSE LET rel_x == anchors[i].x - origin[1]
             rel_y == anchors[i].y - origin[2]
         IN  IF ~in_bounds(rel_x, rel_y, image.size)
             THEN anchors_run_any(anchors, image, origin, i + 1, sampled)
             ELSE LET pixel == getpixel(image, <<rel_x, rel_y>>)
                      taken == Append(sampled, <<rel_x, rel_y>>)
                  IN  IF ~pixel.ok THEN MatchRun(FALSE, TRUE, i, taken)
                      ELSE IF _color_within_tolerance(pixel.val, anchors[i].color,
                                                      anchors[i].tolerance)
                           THEN MatchRun(TRUE, FALSE, i, taken)
                           ELSE anchors_run_any(anchors, image, origin, i + 1, taken)

RECURSIVE anchors_run(_, _, _, _, _)
anchors_run(anchors, image, origin, i, sampled) ==
    IF i > Len(anchors) THEN MatchRun(TRUE, FALSE, i - 1, sampled)
    ELSE LET rel_x == anchors[i].x - origin[1]
             rel_y == anchors[i].y - origin[2]
         IN  IF ~in_bounds(rel_x, rel_y, image.size)
             THEN MatchRun(FALSE, FALSE, i, sampled)
             ELSE LET pixel == getpixel(image, <<rel_x, rel_y>>)
                      taken == Append(sampled, <<rel_x, rel_y>>)
                  IN  IF ~pixel.ok THEN MatchRun(FALSE, TRUE, i, taken)
                      ELSE IF ~_color_within_tolerance(pixel.val, anchors[i].color,
                                                       anchors[i].tolerance)
                           THEN MatchRun(FALSE, FALSE, i, taken)
                           ELSE anchors_run(anchors, image, origin, i + 1, taken)

matches_run(pattern, image, origin) ==
    IF pattern.anchors = <<>> THEN MatchRun(TRUE, FALSE, 0, <<>>)
    ELSE anchors_run(pattern.anchors, image, origin, 1, <<>>)

matches(pattern, image, origin) == matches_run(pattern, image, origin).result

\* One call of detect_pattern: the outcome and the calls of matches it made,
\* in order.
RECURSIVE detect_run_last_match(_, _, _, _, _)
detect_run_last_match(patterns, image, origin, i, runs) ==
    IF i > Len(patterns)
    THEN [outcome |-> Raise("NoPatternMatched"), runs |-> runs]
    ELSE LET run == matches_run(patterns[i], image, origin)
             rest == detect_run_last_match(patterns, image, origin, i + 1,
                                           Append(runs, run))
         IN  IF rest.outcome.ok \/ ~run.result THEN rest
             ELSE [outcome |-> Ok(patterns[i]), runs |-> rest.runs]

RECURSIVE detect_run_from(_, _, _, _, _)
detect_run_from(patterns, image, origin, i, runs) ==
    IF i > Len(patterns)
    THEN [outcome |-> Raise("NoPatternMatched"), runs |-> runs]
    ELSE LET run == matches_run(patterns[i], image, origin)
         IN  IF run.raised
             THEN [outcome |-> Raise("IndexError"), runs |-> Append(runs, run)]
             ELSE IF run.result
                  THEN [outcome |-> Ok(patterns[i]), runs |-> Append(runs, run)]
                  ELSE detect_run_from(patterns, image, origin, i + 1, Append(runs, run))

detect_run(patterns, image, origin) == detect_run_from(patterns, image, origin, 1, <<>>)

detect_pattern(patterns, image, origin) == detect_run(patterns, image, origin).outcome

----------------------------------------------------------------------------
(* Loading the pattern definitions (AnchorDefinition.from_dict,             *)
(* PatternDefinition.from_dict, ExtractorConfig.from_sources).              *)
(* A JSON object is a function from its keys to its values; a JSON string   *)
(* that the program compares (a pattern name) is a tuple of characters.     *)
(* The documents are of the documented shape: x, y, the color elements,     *)
(* tolerance and priority are JSON integers and name is a JSON string, on   *)
(* which int() and str() return their argument.                             *)

has_key(data, key) == key \in DOMAIN data

\* data.get(key, default)
get(data, key, default) == IF has_key(data, key) THEN data[key] ELSE default

UNNAMED_PATTERN == <<"U","n","n","a","m","e","d"," ","P","a","t","t","e","r","n">>

\* AnchorDefinition.from_dict
AnchorDefinition_from_dict_any_length(data) ==
    IF ~has_key(data, "color") THEN Raise("InvalidAnchor")
    ELSE IF ~has_key(data, "x") \/ ~has_key(data, "y") THEN Raise("KeyError")
    ELSE Ok([x |-> data["x"],
             y |-> data["y"],
             color |-> data["color"],
             tolerance |-> get(data, "tolerance", 20),
             description |-> IF has_key(data, "description")
                             THEN <<data["description"]>> ELSE <<>>])

AnchorDefinition_from_dict_zero_default(data) ==
    IF ~has_key(data, "color") THEN Raise("InvalidAnchor")
    ELSE IF Len(data["color"]) # 3 THEN Raise("InvalidAnchor")
    ELSE IF ~has_key(data, "x") \/ ~has_key(data, "y") THEN Raise("KeyError")
    ELSE Ok([x |-> data["x"],
             y |-> data["y"],
             color |-> <<data["color"][1], data["color"][2], data["color"][3]>>,
             tolerance |-> get(data, "tolerance", 0),
             description |-> IF has_key(data, "description")
                             THEN <<data["description"]>> ELSE <<>>])

AnchorDefinition_from_dict(data) ==
    IF ~has_key(data, "color") THEN Raise("InvalidAnchor")
    ELSE IF Len(data["color"]) # 3 THEN Raise("InvalidAnchor")
    ELSE IF ~has_key(data, "x") \/ ~has_key(data, "y") THEN Raise("KeyError")
    ELSE Ok([x |-> data["x"],
             y |-> data["y"],
             color |-> <<data["color"][1], data["color"][2], data["color"][3]>>,
             tolerance |-> get(data, "tolerance", 20),
             description |-> IF has_key(data, "description")
                             THEN <<data["description"]>> ELSE <<>>])

\* [AnchorDefinition.from_dict(item) for item in ...] from the i-th item on
RECURSIVE anchors_from(_, _, _)
anchors_from(items, i, acc) ==
    IF i > Len(items) THEN Ok(acc)
    ELSE LET a == AnchorDefinition_from_dict(items[i])
         IN  IF a.ok THEN anchors_from(items, i + 1, Append(acc, a.val)) ELSE a

\* PatternDefinition.from_dict
PatternDefinition_from_dict(data) ==
    LET anchors == anchors_from(get(data, "anchors", <<>>), 1, <<>>)
    IN  IF ~anchors.ok THEN anchors
        ELSE Ok([name |-> get(data, "name", UNNAMED_PATTERN),
                 anchors |-> anchors.val,
                 priority |-> get(data, "priority", 0)])

\* ord(c) for the characters of pattern names
ord(c) ==
    IF \E k \in 1..10 : AsciiDigits[k] = c
    THEN 47 + (CHOOSE k \in 1..10 : AsciiDigits[k] = c)
    ELSE IF \E k \in 1..26 : UpperChars[k] = c
    THEN 64 + (CHOOSE k \in 1..26 : UpperChars[k] = c)
    ELSE IF \E k \in 1..26 : LowerChars[k] = c
    THEN 96 + (CHOOSE k \in 1..26 : LowerChars[k] = c)
    ELSE 32

\* a < b on str
RECURSIVE str_lt(_, _)
str_lt(a, b) ==
    IF b = <<>> THEN FALSE
    ELSE IF a = <<>> THEN TRUE
    ELSE IF a[1] = b[1] THEN str_lt(Tail(a), Tail(b))
    ELSE ord(a[1]) < ord(b[1])

\* (p.priority, p.name) < (q.priority, q.name)
key_lt_priority_only(p, q) == p.priority < q.priority

key_lt(p, q) ==
    \/ p.priority < q.priority
    \/ p.priority = q.priority /\ str_lt(p.name, q.name)

\* list.sort(key=...) is stable: p goes behind every pattern whose key is
\* not greater than its own
RECURSIVE insert_by_key(_, _)
insert_by_key(sorted, p) ==
    IF sorted = <<>> THEN <<p>>
    ELSE IF key_lt(p, Head(sorted)) THEN <<p>> \o sorted
    ELSE <<Head(sorted)>> \o insert_by_key(Tail(sorted), p)

RECURSIVE sort_patterns_from(_, _, _)
sort_patterns_from(patterns, i, sorted) ==
    IF i > Len(patterns) THEN sorted
    ELSE sort_patterns_from(patterns, i + 1, insert_by_key(sorted, patterns[i]))

sort_patterns(patterns) == sort_patterns_from(patterns, 1, <<>>)

\* for item in data.get("patterns", []): patterns.append(...from_dict(item))
RECURSIVE config_patterns_from(_, _, _)
config_patterns_from(items, i, patterns) ==
    IF i > Len(items) THEN Ok(patterns)
    ELSE LET p == PatternDefinition_from_dict(items[i])
         IN  IF p.ok THEN config_patterns_from(items, i + 1, Append(patterns, p.val))
             ELSE p

\* for pattern_file in pattern_files: ... patterns.append(...from_dict(...))
RECURSIVE file_patterns_from(_, _, _)
file_patterns_from(pattern_files, i, patterns) ==
    IF i > Len(pattern_files) THEN Ok(patterns)
    ELSE IF ~pattern_files[i].exists THEN Raise("SystemExit:PatternFileNotFound")
    ELSE LET p == PatternDefinition_from_dict(pattern_files[i].data)
         IN  IF p.ok
             THEN file_patterns_from(pattern_files, i + 1, Append(patterns, p.val))
             ELSE p

\* the monitor_region part of from_sources; <<>> is None
monitor_region_from(data, monitor_region_override) ==
    IF monitor_region_override # <<>>
    THEN IF Len(monitor_region_override) # 4
         THEN Raise("SystemExit:MonitorRegionOverride")
         ELSE Ok(monitor_region_override)
    ELSE IF has_key(data, "monitor_region")
    THEN IF Len(data["monitor_region"]) # 4
         THEN Raise("SystemExit:MonitorRegionConfig")
         ELSE Ok(data["monitor_region"])
    ELSE Ok(<<>>)

\* hotkey_override or data.get("hotkey") or "F8"; <<>> is None
hotkey_from(data, hotkey_override) ==
    IF hotkey_override # <<>> /\ hotkey_override[1] # "" THEN hotkey_override[1]
    ELSE IF has_key(data, "hotkey") /\ data["hotkey"] # "" THEN data["hotkey"]
    ELSE "F8"

\* ExtractorConfig.from_sources.  config is "missing" (config_path does not
\* exist), "none" (no config_path and no default file) or "file", with data
\* the parsed document.
from_sources(src) ==
    IF src.config = "missing" THEN Raise("SystemExit:ConfigNotFound")
    ELSE
    LET data == IF src.config = "file" THEN src.data ELSE <<>>
        from_config == config_patterns_from(get(data, "patterns", <<>>), 1, <<>>)
    IN  IF ~from_config.ok THEN from_config
        ELSE
        LET patterns == file_patterns_from(src.pattern_files, 1, from_config.val)
        IN  IF ~patterns.ok THEN patterns
            ELSE IF patterns.val = <<>> THEN Raise("SystemExit:NoPatterns")
            ELSE
            LET monitor_region == monitor_region_from(data, src.monitor_region_override)
            IN  IF ~monitor_region.ok THEN monitor_region
                ELSE Ok([hotkey |-> hotkey_from(data, src.hotkey_override),
                         monitor_region |-> monitor_region.val,
                         patterns |-> sort_patterns(patterns.val)])

----------------------------------------------------------------------------
(* Inputs of Spec: what the monitor can show when a cycle captures it, and  *)
(* the configurations the extractor can be constructed with.                *)

TitleBlue == <<26, 73, 128>>

Image(c1, c2) ==
    [size |-> <<2, 1>>, pixel |-> (<<0, 0>> :> c1) @@ (<<1, 0>> :> c2)]

\* the screenshot of a display and the tokens the OCR engine reads from it
Screens == <<
    [image |-> Image(TitleBlue, <<0, 0, 0>>),       tokens |-> PoolSeq({1, 3, 6}, 1)],
    [image |-> Image(<<56, 73, 128>>, <<0, 0, 0>>), tokens |-> PoolSeq({1, 3, 5}, 1)],
    [image |-> Image(<<30, 70, 120>>, <<0, 0, 0>>), tokens |-> PoolSeq({3, 5, 10}, 1)],
    [image |-> Image(TitleBlue, <<0, 0, 0>>),       tokens |-> PoolSeq({11}, 1)] >>

Pattern1 ==
    [name |-> <<"p","a","t","t","e","r","n","1">>, priority |-> 0,
     anchors |-> << [x |-> 1920, y |-> 0, color |-> TitleBlue, tolerance |-> 20,
                     description |-> <<>>] >>]

CatchAll ==
    [name |-> <<"p","a","t","t","e","r","n","2">>, priority |-> 1, anchors |-> <<>>]

\* <<>> is monitor_region = None
Configs == {
    [patterns |-> <<Pattern1>>,           monitor_region |-> <<1920, 0, 1922, 1>>],
    [patterns |-> <<Pattern1, CatchAll>>, monitor_region |-> <<1920, 0, 1922, 1>>],
    [patterns |-> <<Pattern1>>,           monitor_region |-> <<>>],
    [patterns |-> <<Pattern1, CatchAll>>, monitor_region |-> <<1922, 0, 1920, 1>>] }

----------------------------------------------------------------------------
(* Inputs of SpecPattern and SpecMatch: pattern documents, the sources that *)
(* from_sources reads, and captured images with their origin.               *)

Black == <<0, 0, 0>>

White == <<255, 255, 255>>

\* anchor objects; the images are 2 x 1, so with origin (0, 0) the third is
\* at x = width, the fourth left of the image, the fifth at y = height and
\* the sixth above it
AnchorDocs == <<
    [x |-> 0, y |-> 0, color |-> TitleBlue],
    [x |-> 1, y |-> 0, color |-> Black, tolerance |-> 0],
    [x |-> 2, y |-> 0, color |-> TitleBlue, tolerance |-> 255],
    [x |-> -1, y |-> 0, color |-> TitleBlue, tolerance |-> 255],
    [x |-> 0, y |-> 1, color |-> TitleBlue, tolerance |-> 255],
    [x |-> 1, y |-> -1, color |-> Black, tolerance |-> 255],
    [x |-> 1, y |-> 0, color |-> TitleBlue, tolerance |-> 30,
     description |-> "title bar", sampled_at |-> "2024-01-01"],
    [x |-> 0, y |-> 0, color |-> White, tolerance |-> 20] >>

\* pattern objects
PatternDocs == <<
    [name |-> <<"z">>, priority |-> -1, anchors |-> <<AnchorDocs[1]>>],
    [name |-> <<"a">>, priority |-> 1, anchors |-> <<>>],
    [name |-> <<"B">>, priority |-> 1, anchors |-> <<AnchorDocs[2]>>,
     comment |-> "second monitor"],
    [anchors |-> <<AnchorDocs[7], AnchorDocs[1]>>],
    [name |-> <<"a","b">>, priority |-> 0],
    [name |-> <<"a">>, priority |-> 1, anchors |-> <<AnchorDocs[3]>>],
    [name |-> <<"b","a","d">>, priority |-> 0,
     anchors |-> <<AnchorDocs[1], [x |-> 0, y |-> 0, color |-> <<1, 2>>]>>],
    [name |-> <<"r","g","b","a">>, priority |-> 2,
     anchors |-> <<[x |-> 0, y |-> 0, color |-> <<26, 73, 128, 255>>]>>] >>

PatternFile(data) == [exists |-> TRUE, data |-> data]

\* what a --pattern-file argument can name: a pattern object or no file
PatternFiles ==
    { PatternFile(PatternDocs[k]) : k \in 1..Len(PatternDocs) }
    \cup { [exists |-> FALSE, data |-> <<>>] }

SeqsUpTo(S, n) == UNION { [1..k -> S] : k \in 0..n }

\* the config document apart from its patterns, and the command line
SourceRest == {
    [config |-> "file", data |-> <<>>,
     hotkey_override |-> <<>>, monitor_region_override |-> <<>>],
    [config |-> "file", data |-> [hotkey |-> "F9", monitor_region |-> <<0, 0, 2, 1>>],
     hotkey_override |-> <<"F10">>, monitor_region_override |-> <<>>],
    [config |-> "file", data |-> [monitor_region |-> <<0, 0, 2>>],
     hotkey_override |-> <<>>, monitor_region_override |-> <<>>],
    [config |-> "none", data |-> <<>>,
     hotkey_override |-> <<>>, monitor_region_override |-> <<1, 0, 3, 1>>],
    [config |-> "missing", data |-> <<>>,
     hotkey_override |-> <<>>, monitor_region_override |-> <<>>] }

Source(rest, config_patterns, pattern_files) ==
    [config |-> rest.config,
     data |-> IF rest.config = "file"
              THEN [patterns |-> config_patterns] @@ rest.data ELSE <<>>,
     pattern_files |-> pattern_files,
     hotkey_override |-> rest.hotkey_override,
     monitor_region_override |-> rest.monitor_region_override]

\* the config documents holding n patterns and the pattern file lists that
\* go with them: at most MaxPatterns patterns are loaded in all, and there
\* are patterns in the config document only if there is one
SourceRestFor(n) == { r \in SourceRest : n > 0 => r.config = "file" }

ConfigPatternsOf(n) == [1..n -> { PatternDocs[k] : k \in 1..Len(PatternDocs) }]

PatternFilesFor(n) == SeqsUpTo(PatternFiles, MaxPatterns - n)

\* SpecPattern: the first pixel is the title colour or 30 off in one channel
PatternShots == {
    [image |-> Image(TitleBlue, Black), origin |-> <<0, 0>>],
    [image |-> Image(<<26, 73, 158>>, Black), origin |-> <<0, 0>>] }

\* SpecMatch: one pattern file whose anchors are any sequence of AnchorDocs
MatchSource(anchors) ==
    Source(CHOOSE r \in SourceRest : r.config = "none", <<>>,
           << PatternFile([name |-> <<"m">>, anchors |-> anchors]) >>)

AnchorSeqs == SeqsUpTo({ AnchorDocs[k] : k \in 1..Len(AnchorDocs) }, MaxAnchors)

PixelColors == { TitleBlue, <<46, 73, 128>>, <<26, 94, 128>>, <<26, 73, 158>>,
                 Black, White }

MatchShots ==
    { [image |-> Image(c1, c2), origin |-> o] :
        c1 \in PixelColors, c2 \in {TitleBlue, Black, White},
        o \in { <<0, 0>>, <<1, 0>>, <<0, -1>> } }

----------------------------------------------------------------------------
(* AgatstonScoreMaster (agatston_master.py and its copy in                  *)
(* fat_calculation.py): reading a score from an ROI and grading it.         *)
(* A score is the pair [num, exp] standing for num / 10^exp, with exp = 0   *)
(* for an int and no trailing zero in the fraction of a float.  The texts   *)
(* read here have far fewer than 15 significant digits, for which float()   *)
(* orders the values as their decimals do.                                   *)

ROI_1 == [monitor |-> 3]

ROI_2 == [monitor |-> 3]

Programs == {"agatston_master", "fat_calculation"}

RECURSIVE DigitRunEnd(_, _)
DigitRunEnd(s, i) ==
    IF i < Len(s) /\ IsReDigit(s[i + 1]) THEN DigitRunEnd(s, i + 1) ELSE i

\* re.findall(r'\d+(?:\.\d+)?', text)
RECURSIVE findall_numbers(_)
findall_numbers(s) ==
    IF \E i \in 1..Len(s) : IsReDigit(s[i])
    THEN LET i == CHOOSE j \in 1..Len(s) :
                     IsReDigit(s[j]) /\ \A k \in 1..(j - 1) : ~IsReDigit(s[k])
             e == DigitRunEnd(s, i)
             f == IF e + 1 < Len(s) /\ s[e + 1] = "." /\ IsReDigit(s[e + 2])
                  THEN DigitRunEnd(s, e + 2)
                  ELSE e
         IN  <<SubSeq(s, i, f)>> \o findall_numbers(SubSeq(s, f + 1, Len(s)))
    ELSE <<>>

RECURSIVE Pow10(_)
Pow10(k) == IF k = 0 THEN 1 ELSE 10 * Pow10(k - 1)

RECURSIVE normalize_decimal(_, _)
normalize_decimal(n, e) ==
    IF e > 0 /\ n % 10 = 0 THEN normalize_decimal(n \div 10, e - 1)
    ELSE [num |-> n, exp |-> e]

\* float(m) for a match m of \d+(?:\.\d+)?
float(m) ==
    LET points == { k \in 1..Len(m) : m[k] = "." }
    IN  IF points = {} THEN [num |-> int_of_digits(m), exp |-> 0]
        ELSE LET p == CHOOSE k \in points : TRUE
             IN  normalize_decimal(
                     int_of_digits(SubSeq(m, 1, p - 1) \o SubSeq(m, p + 1, Len(m))),
                     Len(m) - p)

is_integer(v) == v.exp = 0

\* a <= v and v <= a for an int a, by the floor and the ceiling of v
int_le(a, v) == a <= v.num \div Pow10(v.exp)

le_int(v, a) ==
    (v.num \div Pow10(v.exp)) + (IF v.num % Pow10(v.exp) = 0 THEN 0 ELSE 1) <= a

\* the part of _extract_from_roi after the OCR call: <<>> stands for None
score_of_text(text) ==
    LET numbers == findall_numbers(strip(text))
    IN  IF numbers = <<>> THEN <<>> ELSE <<float(numbers[1])>>

\* _prepare_roi raises ValueError when the ROI's monitor is not connected
_prepare_roi_raises(roi, n) == roi.monitor >= n

\* _extract_from_roi(roi) when sct.monitors has n entries and the capture
\* and the OCR call end as read says
_extract_from_roi(roi, n, read) ==
    IF _prepare_roi_raises(roi, n) THEN [ok |-> FALSE, err |-> "ValueError"]
    ELSE IF ~read.ok THEN [ok |-> FALSE, err |-> read.err]
    ELSE [ok |-> TRUE, val |-> score_of_text(read.text)]

\* the decimal digits of a natural number, most significant first
RECURSIVE digits_of(_)
digits_of(n) ==
    IF n < 10 THEN <<AsciiDigits[n + 1]>>
    ELSE digits_of(n \div 10) \o <<AsciiDigits[(n % 10) + 1]>>

RECURSIVE strip_trailing_zeros(_)
strip_trailing_zeros(d) ==
    IF Len(d) > 1 /\ d[Len(d)] = "0"
    THEN strip_trailing_zeros(SubSeq(d, 1, Len(d) - 1))
    ELSE d

G_PRECISION == 6

Zeros(k) == [j \in 1..k |-> "0"]

\* f"{score_value:g}": at most G_PRECISION significant digits, rounded half
\* to even, trailing zeros removed; exponent notation when the decimal
\* exponent is below -4 or not below G_PRECISION
format_g(v) ==
    IF v.num = 0 THEN <<"0">>
    ELSE LET n == Len(digits_of(v.num))
             drop == IF n > G_PRECISION THEN n - G_PRECISION ELSE 0
             q == v.num \div Pow10(drop)
             rem == v.num % Pow10(drop)
             up == drop > 0 /\ (2 * rem > Pow10(drop)
                                \/ (2 * rem = Pow10(drop) /\ q % 2 = 1))
             r == IF up THEN q + 1 ELSE q
             M == strip_trailing_zeros(digits_of(r))
             \* decimal exponent of the leading digit of the rounded value
             X == Len(digits_of(r)) - 1 + drop - v.exp
         IN  IF X < -4 \/ X >= G_PRECISION
             THEN LET a == IF X < 0 THEN -X ELSE X
                  IN  <<M[1]>> \o (IF Len(M) > 1 THEN <<".">> \o Tail(M) ELSE <<>>)
                      \o <<"e", IF X < 0 THEN "-" ELSE "+">>
                      \o (IF a < 10 THEN <<"0">> ELSE <<>>) \o digits_of(a)
             ELSE IF X >= 0
                  THEN IF Len(M) <= X + 1
                       THEN M \o Zeros(X + 1 - Len(M))
                       ELSE SubSeq(M, 1, X + 1) \o <<".">> \o SubSeq(M, X + 2, Len(M))
                  ELSE <<"0", ".">> \o Zeros(-X - 1) \o M

\* the five detail texts of _classify_score, in the order of its branches
\* (the source's literals are Korean; each is named by its meaning)
DETAILS == << "no calcium deposit in the coronary artery wall",
              "mild coronary calcification",
              "moderate coronary calcification",
              "moderately severe coronary calcification",
              "severe coronary calcification" >>

UNKNOWN_RANGE == <<"unknown score range">>

FAILURE_TEXT == <<"score not recognized; check the CT image and the ROI">>

\* the branch of _classify_score the score takes, 0 for the final else
grade_of(v) ==
    IF v.num = 0 THEN 1
    ELSE IF int_le(1, v) /\ le_int(v, 10) THEN 2
    ELSE IF int_le(11, v) /\ le_int(v, 100) THEN 3
    ELSE IF int_le(101, v) /\ le_int(v, 400) THEN 4
    ELSE IF ~le_int(v, 400) THEN 5
    ELSE 0

\* how each file wraps the detail and the score
graded_text(prog, detail, score_str) ==
    IF prog = "agatston_master"
    THEN <<"*****\n", detail, " (coronary arterial calcium scoring : ">>
         \o score_str \o <<")\n\n">>
    ELSE <<detail, " (coronary arterial calcium scoring : ">> \o score_str \o <<")">>

_classify_score(prog, v) ==
    LET score_str == format_g(v)
        g == grade_of(v)
    IN  IF g = 0 THEN UNKNOWN_RANGE ELSE graded_text(prog, DETAILS[g], score_str)

----------------------------------------------------------------------------
(* FatValueExtractor (fat analysis.py): the two fat areas read from two     *)
(* screen regions.  <<>> stands for None, <<n>> for the int n.              *)

REGION_1 == <<1526, 377, 1639, 387>>

REGION_2 == <<335, 678, 449, 687>>

\* SQUARE MM SQ, the unit printed after an area
SquareMm == "U+339F"

\* text.replace(',', '').replace('O', '0').replace('o', '0')
\*     .replace(':', ' ').replace(SquareMm, ' ')
RECURSIVE clean(_)
clean(s) ==
    IF s = <<>> THEN <<>>
    ELSE LET c == Head(s)
         IN  (IF c = "," THEN <<>>
              ELSE IF c \in {"O", "o"} THEN <<"0">>
              ELSE IF c \in {":", SquareMm} THEN <<" ">>
              ELSE <<c>>) \o clean(Tail(s))

NOISE_LIMIT == 1000

\* round(value) of a float: to the nearest int, a half to the even one
round(v) ==
    LET q == v.num \div Pow10(v.exp)
        rem == v.num % Pow10(v.exp)
    IN  IF 2 * rem > Pow10(v.exp) \/ (2 * rem = Pow10(v.exp) /\ q % 2 = 1)
        THEN q + 1
        ELSE q

\* the loop over candidates: values of at least NOISE_LIMIT, rounded
RECURSIVE values_of(_)
values_of(candidates) ==
    IF candidates = <<>> THEN <<>>
    ELSE LET value == float(Head(candidates))
         IN  (IF int_le(NOISE_LIMIT, value) THEN <<round(value)>> ELSE <<>>)
             \o values_of(Tail(candidates))

\* return values[0], values[1] with a missing value left as None
first_two_or_none_each(values) ==
    [sub |-> IF Len(values) >= 1 THEN <<values[1]>> ELSE <<>>,
     vis |-> IF Len(values) >= 2 THEN <<values[2]>> ELSE <<>>]

\* if len(values) >= 2: return values[0], values[1]; else: return None, None
first_two(values) ==
    IF Len(values) >= 2 THEN [sub |-> <<values[1]>>, vis |-> <<values[2]>>]
    ELSE [sub |-> <<>>, vis |-> <<>>]

\* extract_numbers_from_region(region) when the capture and the OCR call end
\* as read says; any exception gives None, None
extract_numbers_from_region(region, read) ==
    IF ~read.ok THEN [sub |-> <<>>, vis |-> <<>>]
    ELSE first_two(values_of(findall_numbers(clean(read.text))))

\* subcutaneous = sub1 if sub1 is not None else sub2, and the same for visceral
extract_fat_values(r1, r2) ==
    [sub |-> IF r1.sub # <<>> THEN r1.sub ELSE r2.sub,
     vis |-> IF r1.vis # <<>> THEN r1.vis ELSE r2.vis]

----------------------------------------------------------------------------
(* roi_finder.py: two left clicks give the corners of an ROI.  The dict     *)
(* coords is a function from the keys it holds to points <<x, y>>.          *)

Buttons == {"left", "right", "middle"}

\* reset_coords(): coords.clear() without removing what coords holds
reset_coords_keeping(held) ==
    [coords |-> held, printed |-> <<[line |-> "prompt"]>>]

\* reset_coords(): coords.clear() and the prompt for the next ROI
reset_coords(held) ==
    [coords |-> <<>>, printed |-> <<[line |-> "prompt"]>>]

\* on_click(x, y, button, pressed) with coords holding held: what coords
\* holds afterwards and the lines printed
on_click(held, x, y, button, pressed) ==
    IF button # "left" \/ ~pressed THEN [coords |-> held, printed |-> <<>>]
    ELSE IF ~has_key(held, "top_left")
    THEN [coords |-> held @@ ("top_left" :> <<x, y>>),
          printed |-> <<[line |-> "top_left", x |-> x, y |-> y]>>]
    ELSE IF ~has_key(held, "bottom_right")
    THEN LET both == held @@ ("bottom_right" :> <<x, y>>)
             left == both["top_left"][1]
             top == both["top_left"][2]
             width == both["bottom_right"][1] - left
             height == both["bottom_right"][2] - top
             r == reset_coords(both)
         IN  [coords |-> r.coords,
              printed |-> <<[line |-> "bottom_right", x |-> x, y |-> y]>>
                  \o (IF width > 0 /\ height > 0
                      THEN <<[line |-> "roi", top |-> top, left |-> left,
                              width |-> width, height |-> height]>>
                      ELSE <<[line |-> "error"]>>)
                  \o r.printed]
    ELSE [coords |-> held, printed |-> <<>>]

----------------------------------------------------------------------------
(* State *)

VARIABLES
    raw,        \* SpecExtract: the OCR engine's tokens for the captured image
    xpc,        \* SpecExtract: position in main
    words,      \* SpecExtract: result of extract_words
    outcome,    \* SpecExtract: result of extract_total_agatston_score
    centerRes,  \* SpecExtract: result of find_agatston_column_center
    shown,      \* SpecExtract: scores passed to show_result
    config,            \* Spec: PatternExtractor.config
    _lock,             \* Spec: PatternExtractor._lock is locked
    _last_capture_at,  \* Spec: <<>> (None) or <<logical time of the last cycle>>
    pressed,           \* Spec: hotkey presses so far; press k starts thread k
    pc,                \* Spec: position of each thread in process_once
    local,             \* Spec: the local variables of each thread's call
    accepted,          \* Spec: threads in the order they acquired the guard
    busy_seen,         \* Spec: threads whose acquire found the guard held
    stages,            \* Spec: the steps of the cycle each thread has run
    results,           \* Spec: what show_result has emitted, in order
    errors,            \* Spec: what the except clause has logged, in order
    sources,     \* SpecPattern: the arguments and files of from_sources
    shot,        \* SpecPattern: the captured image and its origin
    mpc,         \* SpecPattern: the next call
    loaded,      \* SpecPattern: result of from_sources
    match_runs,  \* SpecPattern: the call of matches on each loaded pattern
    detection,   \* SpecPattern: the call of detect_pattern
    program,         \* SpecMaster: the file whose AgatstonScoreMaster runs
    monitors,        \* SpecMaster: len(sct.monitors)
    hpc,             \* SpecMaster: position in on_hotkey_press
    hotkeys,         \* SpecMaster: hotkey presses so far
    tried,           \* SpecMaster: the _extract_from_roi calls of this press
    score,           \* SpecMaster: the local variable score, <<>> for None
    sent,            \* SpecMaster: the _input_result_to_target calls, in order
    reading,         \* SpecClassify: the text the OCR engine returns
    cpc,             \* SpecClassify: the next call
    extracted,       \* SpecClassify: result of _extract_from_roi
    classification,  \* SpecClassify: result of _classify_score
    fpc,             \* SpecFat: position in extract_fat_values
    region_values,   \* SpecFat: what extract_numbers_from_region returned
    fat_values,      \* SpecFat: result of extract_fat_values
    coords,          \* SpecRoi: the module-level dict coords
    printed,         \* SpecRoi: the lines on_click has printed, in order
    events,          \* SpecRoi: the mouse events on_click has handled
    stop_event,      \* SpecRoi: stop_event is set
    listening        \* SpecRoi: the mouse listener is running

xvars == <<raw, xpc, words, outcome, centerRes, shown>>

pvars == <<config, _lock, _last_capture_at, pressed, pc, local, accepted,
           busy_seen, stages, results, errors>>

mvars == <<sources, shot, mpc, loaded, match_runs, detection>>

avars == <<program, monitors, hpc, hotkeys, tried, score, sent>>

cvars == <<reading, cpc, extracted, classification>>

fvars == <<fpc, region_values, fat_values>>

rvars == <<coords, printed, events, stop_event, listening>>

svars == <<avars, cvars, fvars, rvars>>

vars == <<raw, xpc, words, outcome, centerRes, shown,
          config, _lock, _last_capture_at, pressed, pc, local, accepted,
          busy_seen, stages, results, errors,
          sources, shot, mpc, loaded, match_runs, detection,
          program, monitors, hpc, hotkeys, tried, score, sent,
          reading, cpc, extracted, classification,
          fpc, region_values, fat_values,
          coords, printed, events, stop_event, listening>>

Unset == [ok |-> FALSE, err |-> "unset"]

Threads == 1..MaxTriggers

\* the try block of process_once and its except / finally clauses
Section == {"capture", "detect", "extract_words", "extract_score",
            "show_result", "except", "finally"}

NoLocals == [screenshot |-> <<>>, origin |-> <<>>, pattern |-> <<>>,
             words |-> <<>>, score |-> <<>>, exc |-> <<>>]

\* state of the extractor script while the hotkey program is the one running
ExtractIdle ==
    /\ raw = <<>>
    /\ xpc = "not_started"
    /\ words = Unset
    /\ outcome = Unset
    /\ centerRes = Unset
    /\ shown = <<>>

\* state of the hotkey program while the extractor script is the one running
HotkeyIdle ==
    /\ config = CHOOSE c \in Configs : TRUE
    /\ _lock = FALSE
    /\ _last_capture_at = <<>>
    /\ pressed = 0
    /\ pc = [t \in Threads |-> "not_started"]
    /\ local = [t \in Threads |-> NoLocals]
    /\ accepted = <<>>
    /\ busy_seen = {}
    /\ stages = [t \in Threads |-> {}]
    /\ results = <<>>
    /\ errors = <<>>

\* state of the pattern loader while another program is the one running
MatcherIdle ==
    /\ sources = <<>>
    /\ shot = <<>>
    /\ mpc = "not_started"
    /\ loaded = Unset
    /\ match_runs = <<>>
    /\ detection = Unset

\* state of AgatstonScoreMaster while another program is the one running
MasterIdle ==
    /\ program = "agatston_master"
    /\ monitors = 0
    /\ hpc = "not_started"
    /\ hotkeys = 0
    /\ tried = <<>>
    /\ score = <<>>
    /\ sent = <<>>

ClassifyIdle ==
    /\ reading = <<>>
    /\ cpc = "not_started"
    /\ extracted = Unset
    /\ classification = Unset

\* state of the abdominal fat reader while another program is the one running
FatIdle ==
    /\ fpc = "not_started"
    /\ region_values = <<>>
    /\ fat_values = Unset

\* state of roi_finder while another program is the one running
RoiIdle ==
    /\ coords = <<>>
    /\ printed = <<>>
    /\ events = <<>>
    /\ stop_event = FALSE
    /\ listening = FALSE

----------------------------------------------------------------------------
(* SpecExtract: Total_Agatston_Extractor.main from the OCR call on *)

InitExtract ==
    /\ raw \in RawInputs
    /\ xpc = "extract_words"
    /\ words = Unset
    /\ outcome = Unset
    /\ centerRes = Unset
    /\ shown = <<>>
    /\ HotkeyIdle
    /\ MatcherIdle
    /\ MasterIdle /\ ClassifyIdle /\ FatIdle /\ RoiIdle

\* words = extract_words(image); an exception ends main with exit code 1
ExtractWords ==
    /\ xpc = "extract_words"
    /\ words' = extract_words(raw)
    /\ xpc' = IF words'.ok THEN "extract_score" ELSE "exit_1"
    /\ UNCHANGED <<raw, outcome, centerRes, shown>>
    /\ UNCHANGED <<pvars, mvars, svars>>

\* find_agatston_column_center applied to the word list on its own
FindAgatstonColumnCenter ==
    /\ xpc = "extract_score"
    /\ centerRes = Unset
    /\ centerRes' = find_agatston_column_center(words.val)
    /\ UNCHANGED <<raw, xpc, words, outcome, shown>>
    /\ UNCHANGED <<pvars, mvars, svars>>

\* score = extract_total_agatston_score(words)
ExtractTotalAgatstonScore ==
    /\ xpc = "extract_score"
    /\ outcome' = extract_total_agatston_score(words.val)
    /\ xpc' = IF outcome'.ok THEN "show_result" ELSE "exit_1"
    /\ UNCHANGED <<raw, words, centerRes, shown>>
    /\ UNCHANGED <<pvars, mvars, svars>>

\* show_result(score, ...); return 0
ShowResult ==
    /\ xpc = "show_result"
    /\ shown' = Append(shown, outcome.val)
    /\ xpc' = "exit_0"
    /\ UNCHANGED <<raw, words, outcome, centerRes>>
    /\ UNCHANGED <<pvars, mvars, svars>>

NextExtract ==
    \/ ExtractWords
    \/ FindAgatstonColumnCenter
    \/ ExtractTotalAgatstonScore
    \/ ShowResult

SpecExtract == InitExtract /\ [][NextExtract]_vars

\* SpecNumeric: the same program on the inputs that vary one token's text
InitNumeric ==
    /\ raw \in NumericInputs
    /\ xpc = "extract_words"
    /\ words = Unset
    /\ outcome = Unset
    /\ centerRes = Unset
    /\ shown = <<>>
    /\ HotkeyIdle
    /\ MatcherIdle
    /\ MasterIdle /\ ClassifyIdle /\ FatIdle /\ RoiIdle

SpecNumeric == InitNumeric /\ [][NextExtract]_vars

----------------------------------------------------------------------------
(* Spec: PatternExtractor.run_with_hotkey.  Every hotkey press starts a     *)
(* daemon thread that runs process_once; the threads interleave between the *)
(* statements of process_once.                                              *)

Init ==
    /\ ExtractIdle
    /\ MatcherIdle
    /\ MasterIdle /\ ClassifyIdle /\ FatIdle /\ RoiIdle
    /\ config \in Configs
    /\ _lock = FALSE
    /\ _last_capture_at = <<>>
    /\ pressed = 0
    /\ pc = [t \in Threads |-> "not_started"]
    /\ local = [t \in Threads |-> NoLocals]
    /\ accepted = <<>>
    /\ busy_seen = {}
    /\ stages = [t \in Threads |-> {}]
    /\ results = <<>>
    /\ errors = <<>>

\* threading.Lock.acquire(blocking=False) on a lock whose state is locked
acquire_unconditionally(locked) == [acquired |-> TRUE, locked |-> TRUE]

acquire_nonblocking(locked) == [acquired |-> ~locked, locked |-> TRUE]

\* where process_once continues after the acquire: the warning and the
\* return of lines 421-422, or the try block
after_acquire_without_return(acquired) == "capture"

after_acquire(acquired) == IF acquired THEN "capture" ELSE "done"

\* on_activate: threading.Thread(target=self.process_once, daemon=True).start()
on_activate ==
    /\ pressed < MaxTriggers
    /\ pressed' = pressed + 1
    /\ pc' = [pc EXCEPT ![pressed + 1] = "acquire"]
    /\ UNCHANGED <<config, _lock, _last_capture_at, local, accepted, busy_seen,
                   stages, results, errors>>
    /\ UNCHANGED <<xvars, mvars, svars>>

\* if not self._lock.acquire(blocking=False): warning; return
process_once_acquire(t) ==
    /\ pc[t] = "acquire"
    /\ LET r == acquire_nonblocking(_lock)
       IN  /\ _lock' = r.locked
           /\ pc' = [pc EXCEPT ![t] = after_acquire(r.acquired)]
           /\ accepted' = IF r.acquired THEN Append(accepted, t) ELSE accepted
           /\ busy_seen' = IF _lock THEN busy_seen \cup {t} ELSE busy_seen
    /\ UNCHANGED <<config, _last_capture_at, pressed, local, stages, results, errors>>
    /\ UNCHANGED <<xvars, mvars, svars>>

\* an exception raised inside the try block: control goes to the except
\* clause with the exception bound to exc
Fail_unhandled(t, e) ==
    /\ pc' = [pc EXCEPT ![t] = "done"]
    /\ local' = [local EXCEPT ![t].exc = <<e>>]

Fail(t, e) ==
    /\ pc' = [pc EXCEPT ![t] = "except"]
    /\ local' = [local EXCEPT ![t].exc = <<e>>]

\* self._last_capture_at = time.time(); screenshot, origin = self.capture_monitor()
\* The screenshot call of pyautogui either raises or returns what the monitor
\* shows at that moment.
process_once_capture(t) ==
    /\ pc[t] = "capture"
    /\ stages' = [stages EXCEPT ![t] = @ \cup {"capture"}]
    /\ _last_capture_at' = <<Len(accepted)>>
    /\ LET region == config.monitor_region
       IN  IF region # <<>> /\ (region[3] <= region[1] \/ region[4] <= region[2])
           THEN Fail(t, "InvalidMonitorRegion")
           ELSE \/ Fail(t, "ScreenshotFailed")
                \/ \E s \in 1..Len(Screens) :
                      /\ local' = [local EXCEPT
                                     ![t].screenshot = <<s>>,
                                     ![t].origin = IF region # <<>>
                                                   THEN <<region[1], region[2]>>
                                                   ELSE <<0, 0>>]
                      /\ pc' = [pc EXCEPT ![t] = "detect"]
    /\ UNCHANGED <<config, _lock, pressed, accepted, busy_seen, results, errors>>
    /\ UNCHANGED <<xvars, mvars, svars>>

\* pattern = self.detect_pattern(screenshot, origin)
process_once_detect_then_ocr_anyway(t) ==
    /\ pc[t] = "detect"
    /\ stages' = [stages EXCEPT ![t] = @ \cup {"detect"}]
    /\ LET r == detect_pattern(config.patterns,
                               Screens[local[t].screenshot[1]].image, local[t].origin)
       IN  /\ local' = [local EXCEPT ![t].pattern = IF r.ok THEN <<r.val.name>> ELSE <<>>]
           /\ pc' = [pc EXCEPT ![t] = "extract_words"]
    /\ UNCHANGED <<config, _lock, _last_capture_at, pressed, accepted, busy_seen,
                   results, errors>>
    /\ UNCHANGED <<xvars, mvars, svars>>

process_once_detect(t) ==
    /\ pc[t] = "detect"
    /\ stages' = [stages EXCEPT ![t] = @ \cup {"detect"}]
    /\ LET r == detect_pattern(config.patterns,
                               Screens[local[t].screenshot[1]].image, local[t].origin)
       IN  IF r.ok
           THEN /\ local' = [local EXCEPT ![t].pattern = <<r.val.name>>]
                /\ pc' = [pc EXCEPT ![t] = "extract_words"]
           ELSE Fail(t, r.err)
    /\ UNCHANGED <<config, _lock, _last_capture_at, pressed, accepted, busy_seen,
                   results, errors>>
    /\ UNCHANGED <<xvars, mvars, svars>>

\* words = extract_words(screenshot); the OCR engine itself may raise
process_once_extract_words(t) ==
    /\ pc[t] = "extract_words"
    /\ stages' = [stages EXCEPT ![t] = @ \cup {"extract_words"}]
    /\ \/ Fail(t, "TesseractError")
       \/ LET r == extract_words(Screens[local[t].screenshot[1]].tokens)
          IN  IF r.ok
              THEN /\ local' = [local EXCEPT ![t].words = r.val]
                   /\ pc' = [pc EXCEPT ![t] = "extract_score"]
              ELSE Fail(t, r.err)
    /\ UNCHANGED <<config, _lock, _last_capture_at, pressed, accepted, busy_seen,
                   results, errors>>
    /\ UNCHANGED <<xvars, mvars, svars>>

\* score = extract_total_agatston_score(words)
process_once_extract_score(t) ==
    /\ pc[t] = "extract_score"
    /\ stages' = [stages EXCEPT ![t] = @ \cup {"extract_score"}]
    /\ LET r == extract_total_agatston_score(local[t].words)
       IN  IF r.ok
           THEN /\ local' = [local EXCEPT ![t].score = <<r.val>>]
                /\ pc' = [pc EXCEPT ![t] = "show_result"]
           ELSE Fail(t, r.err)
    /\ UNCHANGED <<config, _lock, _last_capture_at, pressed, accepted, busy_seen,
                   results, errors>>
    /\ UNCHANGED <<xvars, mvars, svars>>

\* show_result(score, self.use_popup)
process_once_show_result(t) ==
    /\ pc[t] = "show_result"
    /\ stages' = [stages EXCEPT ![t] = @ \cup {"show_result"}]
    /\ results' = Append(results, [trigger |-> t, score |-> local[t].score[1]])
    /\ pc' = [pc EXCEPT ![t] = "finally"]
    /\ UNCHANGED <<config, _lock, _last_capture_at, pressed, local, accepted,
                   busy_seen, errors>>
    /\ UNCHANGED <<xvars, mvars, svars>>

\* except Exception as exc: LOGGER.error(...)
process_once_except(t) ==
    /\ pc[t] = "except"
    /\ errors' = Append(errors, [trigger |-> t, exc |-> local[t].exc[1]])
    /\ pc' = [pc EXCEPT ![t] = "finally"]
    /\ UNCHANGED <<config, _lock, _last_capture_at, pressed, local, accepted,
                   busy_seen, stages, results>>
    /\ UNCHANGED <<xvars, mvars, svars>>

\* threading.Lock.release() on a lock whose state is locked
release_without_effect(locked) == locked

release(locked) == FALSE

\* finally: self._lock.release()
process_once_finally(t) ==
    /\ pc[t] = "finally"
    /\ _lock' = release(_lock)
    /\ pc' = [pc EXCEPT ![t] = "done"]
    /\ UNCHANGED <<config, _last_capture_at, pressed, local, accepted, busy_seen,
                   stages, results, errors>>
    /\ UNCHANGED <<xvars, mvars, svars>>

process_once(t) ==
    \/ process_once_acquire(t)
    \/ process_once_capture(t)
    \/ process_once_detect(t)
    \/ process_once_extract_words(t)
    \/ process_once_extract_score(t)
    \/ process_once_show_result(t)
    \/ process_once_except(t)
    \/ process_once_finally(t)

Next ==
    \/ on_activate
    \/ \E t \in Threads : process_once(t)

Spec == Init /\ [][Next]_vars

\* the positions of a thread in process_once
Positions == {"not_started", "acquire", "done"} \cup Section

\* the statement a thread is at in process_once returns or raises, which
\* moves the thread to another position
process_once_statement_ends(t) ==
    /\ pc[t] \in {"acquire"} \cup Section
    /\ \E p \in Positions \ {pc[t]} : pc' = [pc EXCEPT ![t] = p]

\* SpecLive: the threads that were started keep being scheduled, and each
\* call made inside a cycle returns or raises, so as long as some thread is
\* at a statement of process_once one of them gets past its statement
SpecLive ==
    Init /\ [][Next]_vars /\ WF_pc(\E t \in Threads : process_once_statement_ends(t))

----------------------------------------------------------------------------
(* SpecPattern, SpecMatch: the pattern definitions are loaded by            *)
(* from_sources as main does, then matches is called on every loaded        *)
(* pattern and detect_pattern on the list, with a captured image.           *)

InitPattern ==
    /\ \E n \in 0..MaxPatterns :
          \E rest \in SourceRestFor(n), cp \in ConfigPatternsOf(n),
             pf \in PatternFilesFor(n) :
              sources = Source(rest, cp, pf)
    /\ shot \in PatternShots
    /\ mpc = "from_sources"
    /\ loaded = Unset
    /\ match_runs = <<>>
    /\ detection = Unset
    /\ ExtractIdle
    /\ HotkeyIdle
    /\ MasterIdle /\ ClassifyIdle /\ FatIdle /\ RoiIdle

InitMatch ==
    /\ \E anchors \in AnchorSeqs : sources = MatchSource(anchors)
    /\ shot \in MatchShots
    /\ mpc = "from_sources"
    /\ loaded = Unset
    /\ match_runs = <<>>
    /\ detection = Unset
    /\ ExtractIdle
    /\ HotkeyIdle
    /\ MasterIdle /\ ClassifyIdle /\ FatIdle /\ RoiIdle

\* config = ExtractorConfig.from_sources(...); an exception ends main
FromSources ==
    /\ mpc = "from_sources"
    /\ loaded' = from_sources(sources)
    /\ mpc' = IF loaded'.ok THEN "matches" ELSE "exit"
    /\ UNCHANGED <<sources, shot, match_runs, detection>>
    /\ UNCHANGED <<xvars, pvars, svars>>

\* pattern.matches(screenshot, origin) for each pattern of the configuration
Matches ==
    /\ mpc = "matches"
    /\ match_runs' = [k \in 1..Len(loaded.val.patterns) |->
                        matches_run(loaded.val.patterns[k], shot.image, shot.origin)]
    /\ mpc' = "detect_pattern"
    /\ UNCHANGED <<sources, shot, loaded, detection>>
    /\ UNCHANGED <<xvars, pvars, svars>>

\* detect_pattern(screenshot, origin)
DetectPattern ==
    /\ mpc = "detect_pattern"
    /\ detection' = detect_run(loaded.val.patterns, shot.image, shot.origin)
    /\ mpc' = "done"
    /\ UNCHANGED <<sources, shot, loaded, match_runs>>
    /\ UNCHANGED <<xvars, pvars, svars>>

NextPattern == FromSources \/ Matches \/ DetectPattern

SpecPattern == InitPattern /\ [][NextPattern]_vars

SpecMatch == InitMatch /\ [][NextPattern]_vars

----------------------------------------------------------------------------
(* SpecClassify: _extract_from_roi on an ROI whose capture and OCR succeed, *)
(* then _classify_score on the score it returned.                           *)

ScoreChars == {"0", "1", "."}

\* readings longer than MaxScoreLen, and with characters outside ScoreChars
ScoreExamples == {
    <<"0", ".", "5">>, <<"1", "0", ".", "5">>, <<"1", "0", "0", ".", "5">>,
    <<"4", "0", "0", ".", "5">>, <<"7">>, <<"1", "5", "0">>, <<"4", "0", "1">>,
    <<" ", "1", "2", "\n">>, <<"1", " ", "0">>, <<"0", "0", "7", ".", "5", "0">>,
    <<"1", "2", "3", "4", "5", "6", "7">>, <<"1", "2", "3", "4", "5", "6", "5">>,
    <<"9", "9", "9", "9", "9", "9", "5">>, <<"1", "0", "0", "0", "0", "0", "0">>,
    <<"0", ".", "0", "0", "0", "0", "1">>, <<"0", ".", "0", "0", "0", "1">> }

ScoreTexts == SeqsUpTo(ScoreChars, MaxScoreLen) \cup ScoreExamples

InitClassify ==
    /\ ExtractIdle
    /\ HotkeyIdle
    /\ MatcherIdle
    /\ FatIdle
    /\ RoiIdle
    /\ program \in Programs
    /\ monitors = 0
    /\ hpc = "not_started"
    /\ hotkeys = 0
    /\ tried = <<>>
    /\ score = <<>>
    /\ sent = <<>>
    /\ reading \in ScoreTexts
    /\ cpc = "_extract_from_roi"
    /\ extracted = Unset
    /\ classification = Unset

\* score = self._extract_from_roi(roi), the monitor of the ROI being connected
ExtractFromRoi ==
    /\ cpc = "_extract_from_roi"
    /\ extracted' = _extract_from_roi(ROI_1, ROI_1.monitor + 1,
                                      [ok |-> TRUE, text |-> reading])
    /\ cpc' = IF extracted'.val = <<>> THEN "done" ELSE "_classify_score"
    /\ UNCHANGED <<reading, classification>>
    /\ UNCHANGED <<xvars, pvars, mvars, avars, fvars, rvars>>

\* classification = self._classify_score(score)
ClassifyScore ==
    /\ cpc = "_classify_score"
    /\ classification' = [ok |-> TRUE, val |-> _classify_score(program, extracted.val[1])]
    /\ cpc' = "done"
    /\ UNCHANGED <<reading, extracted>>
    /\ UNCHANGED <<xvars, pvars, mvars, avars, fvars, rvars>>

NextClassify == ExtractFromRoi \/ ClassifyScore

SpecClassify == InitClassify /\ [][NextClassify]_vars

----------------------------------------------------------------------------
(* SpecMaster: start_listener.  The hotkey listener calls on_hotkey_press   *)
(* for one press at a time; an exception that leaves on_hotkey_press leaves *)
(* on_activate and listener.join() as well.                                 *)

\* len(sct.monitors): the ROIs' monitor is connected or it is not
MonitorCounts == {ROI_1.monitor, ROI_1.monitor + 1}

RoiTexts == { <<>>, <<".">>, <<"0">>, <<"0", ".", "5">>, <<"7">>, <<"4", "0", "1">> }

\* how the capture and the OCR call of one _extract_from_roi end
RoiReadings ==
    { [ok |-> TRUE, text |-> t] : t \in RoiTexts }
    \cup { [ok |-> FALSE, err |-> e] : e \in {"ScreenShotError", "TesseractError"} }

InitMaster ==
    /\ ExtractIdle
    /\ HotkeyIdle
    /\ MatcherIdle
    /\ ClassifyIdle
    /\ FatIdle
    /\ RoiIdle
    /\ program \in Programs
    /\ monitors \in MonitorCounts
    /\ hpc = "idle"
    /\ hotkeys = 0
    /\ tried = <<>>
    /\ score = <<>>
    /\ sent = <<>>

\* on_activate: master.on_hotkey_press()
master_on_activate ==
    /\ hpc = "idle"
    /\ hotkeys < MaxPresses
    /\ hotkeys' = hotkeys + 1
    /\ hpc' = "roi_1"
    /\ tried' = <<>>
    /\ score' = <<>>
    /\ UNCHANGED <<program, monitors, sent>>
    /\ UNCHANGED <<xvars, pvars, mvars, cvars, fvars, rvars>>

\* score = self._extract_from_roi(self.rois[0])
on_hotkey_press_roi_1 ==
    /\ hpc = "roi_1"
    /\ \E read \in RoiReadings :
          LET r == _extract_from_roi(ROI_1, monitors, read)
          IN  /\ tried' = Append(tried, [roi |-> 1, result |-> r])
              /\ score' = IF r.ok THEN r.val ELSE score
              /\ hpc' = IF ~r.ok THEN "raised"
                        ELSE IF r.val = <<>> THEN "roi_2" ELSE "result"
    /\ UNCHANGED <<program, monitors, hotkeys, sent>>
    /\ UNCHANGED <<xvars, pvars, mvars, cvars, fvars, rvars>>

\* if score is None: score = self._extract_from_roi(self.rois[1])
on_hotkey_press_roi_2 ==
    /\ hpc = "roi_2"
    /\ \E read \in RoiReadings :
          LET r == _extract_from_roi(ROI_2, monitors, read)
          IN  /\ tried' = Append(tried, [roi |-> 2, result |-> r])
              /\ score' = IF r.ok THEN r.val ELSE score
              /\ hpc' = IF ~r.ok THEN "raised" ELSE "result"
    /\ UNCHANGED <<program, monitors, hotkeys, sent>>
    /\ UNCHANGED <<xvars, pvars, mvars, cvars, fvars, rvars>>

\* _input_result_to_target(score_value, classification_text): RESULT_INPUT_COORD
\* is set, score_value is not used; the message is pasted or typed into the
\* field unless the GUI automation raises, which is caught and logged
_input_result_to_target(press, message, automation_ok) ==
    [press |-> press, message |-> message, arrived |-> automation_ok]

\* if score is not None: classify and input the result; else: input the
\* failure text
on_hotkey_press_result ==
    /\ hpc = "result"
    /\ LET message == IF score # <<>> THEN _classify_score(program, score[1])
                      ELSE FAILURE_TEXT
       IN  \E automation_ok \in BOOLEAN :
              sent' = Append(sent, _input_result_to_target(hotkeys, message, automation_ok))
    /\ hpc' = "idle"
    /\ UNCHANGED <<program, monitors, hotkeys, tried, score>>
    /\ UNCHANGED <<xvars, pvars, mvars, cvars, fvars, rvars>>

NextMaster ==
    \/ master_on_activate
    \/ on_hotkey_press_roi_1
    \/ on_hotkey_press_roi_2
    \/ on_hotkey_press_result

SpecMaster == InitMaster /\ [][NextMaster]_vars

----------------------------------------------------------------------------
(* SpecFat: one call of FatValueExtractor.extract_fat_values *)

\* the text the OCR engine returns for a region: numbers, each followed by a
\* separator, which keeps every run of digits short
FatNumbers == { <<"1", ",", "2", "3", "4">>, <<"2", "O", "0", "0">>, <<"9", "9", "9">>,
                <<"1", "0", "0", "1", ".", "5">> }

FatSeparators == { <<" ">>, <<":">>, <<SquareMm>>, <<".">> }

FatItems == { n \o sep : n \in FatNumbers, sep \in FatSeparators }

RECURSIVE Concat(_)
Concat(ss) == IF ss = <<>> THEN <<>> ELSE Head(ss) \o Concat(Tail(ss))

\* a noise value before the two areas, and a text without separators
FatExamples == {
    <<"9", "9", "9", " ", "1", ",", "2", "3", "4", ":", "2", "o", "0", "0", SquareMm>>,
    <<"1", "0", "0", "0", ".", "5", "\n", "1", "2", "3", "4", "5">>,
    <<"a", "r", "e", "a">> }

FatTexts == { Concat(ss) : ss \in SeqsUpTo(FatItems, MaxFatTokens) } \cup FatExamples

\* how the capture and the OCR call of one region end
FatReadings ==
    { [ok |-> TRUE, text |-> t] : t \in FatTexts }
    \cup { [ok |-> FALSE, err |-> "OSError"] }

InitFat ==
    /\ ExtractIdle
    /\ HotkeyIdle
    /\ MatcherIdle
    /\ MasterIdle
    /\ ClassifyIdle
    /\ RoiIdle
    /\ fpc = "region_1"
    /\ region_values = <<>>
    /\ fat_values = Unset

\* sub1, vis1 = FatValueExtractor.extract_numbers_from_region(REGION_1)
extract_fat_values_region_1 ==
    /\ fpc = "region_1"
    /\ \E read \in FatReadings :
          region_values' = <<extract_numbers_from_region(REGION_1, read)>>
    /\ fpc' = "region_2"
    /\ UNCHANGED fat_values
    /\ UNCHANGED <<xvars, pvars, mvars, avars, cvars, rvars>>

\* sub2, vis2 = FatValueExtractor.extract_numbers_from_region(REGION_2)
extract_fat_values_region_2 ==
    /\ fpc = "region_2"
    /\ \E read \in FatReadings :
          region_values' = Append(region_values, extract_numbers_from_region(REGION_2, read))
    /\ fpc' = "select"
    /\ UNCHANGED fat_values
    /\ UNCHANGED <<xvars, pvars, mvars, avars, cvars, rvars>>

\* the selection of the valid values and the return
extract_fat_values_select ==
    /\ fpc = "select"
    /\ fat_values' = [ok |-> TRUE,
                      val |-> extract_fat_values(region_values[1], region_values[2])]
    /\ fpc' = "done"
    /\ UNCHANGED region_values
    /\ UNCHANGED <<xvars, pvars, mvars, avars, cvars, rvars>>

NextFat ==
    \/ extract_fat_values_region_1
    \/ extract_fat_values_region_2
    \/ extract_fat_values_select

SpecFat == InitFat /\ [][NextFat]_vars

----------------------------------------------------------------------------
(* SpecRoi: roi_finder.main.  The mouse listener calls on_click for one     *)
(* event at a time; ESC sets stop_event, after which main stops the         *)
(* listeners.                                                               *)

\* screen coordinates of the pointer
Coord == 0..MaxCoord

InitRoi ==
    /\ ExtractIdle
    /\ HotkeyIdle
    /\ MatcherIdle
    /\ MasterIdle
    /\ ClassifyIdle
    /\ FatIdle
    /\ coords = <<>>
    /\ printed = <<>>
    /\ events = <<>>
    /\ stop_event = FALSE
    /\ listening = TRUE

\* the mouse listener handles one event
OnClick ==
    /\ listening
    /\ Len(events) < MaxClicks
    /\ \E x \in Coord, y \in Coord, button \in Buttons, down \in BOOLEAN :
          LET r == on_click(coords, x, y, button, down)
          IN  /\ events' = Append(events, [x |-> x, y |-> y, button |-> button,
                                           pressed |-> down])
              /\ coords' = r.coords
              /\ printed' = printed \o r.printed
    /\ UNCHANGED <<stop_event, listening>>
    /\ UNCHANGED <<xvars, pvars, mvars, avars, cvars, fvars>>

\* on_key_press(key): ESC sets stop_event and ends the keyboard listener
on_key_press ==
    /\ ~stop_event
    /\ \E key \in {"esc", "a"} :
          stop_event' = (key = "esc")
    /\ UNCHANGED <<coords, printed, events, listening>>
    /\ UNCHANGED <<xvars, pvars, mvars, avars, cvars, fvars>>

\* main: stop_event.wait() returns; finally the listeners are stopped
main_finally ==
    /\ stop_event
    /\ listening
    /\ listening' = FALSE
    /\ UNCHANGED <<coords, printed, events, stop_event>>
    /\ UNCHANGED <<xvars, pvars, mvars, avars, cvars, fvars>>

NextRoi == OnClick \/ on_key_press \/ main_finally

SpecRoi == InitRoi /\ [][NextRoi]_vars

----------------------------------------------------------------------------
(* Properties of the re-entrancy guard of process_once *)

InSection == { t \in Threads : pc[t] \in Section }

AcceptedSet == { accepted[k] : k \in 1..Len(accepted) }

\* position of an accepted thread in the order of acceptance
AcceptedPos(t) == CHOOSE k \in 1..Len(accepted) : accepted[k] = t

Emitted(t) == \E i \in 1..Len(results) : results[i].trigger = t

C2_OneCycleAtATime ==
    /\ Cardinality(InSection) <= 1
    /\ InSection # {} => _lock
    /\ \A k \in 1..(Len(accepted) - 1) : pc[accepted[k]] = "done"
    /\ \A t \in InSection : accepted # <<>> /\ accepted[Len(accepted)] = t

\* a second cycle is in its section while a third trigger is at the guard
C2_Witness ==
    /\ Len(accepted) = 2
    /\ pc[accepted[2]] = "extract_score"
    /\ pc[accepted[1]] = "done"
    /\ \E t \in Threads : pc[t] = "acquire"

\* C3: the results show_result emitted are in the order in which their
\* triggers acquired the guard, and only accepted triggers emit.
C3_ResultsInAcceptanceOrder ==
    /\ \A i \in 1..Len(results) : results[i].trigger \in AcceptedSet
    /\ \A i, j \in 1..Len(results) :
          i < j => AcceptedPos(results[i].trigger) < AcceptedPos(results[j].trigger)

\* two results, the later press accepted and shown first, a failed cycle
\* or a rejected trigger besides them
C3_Witness ==
    /\ Len(results) = 2
    /\ results[1].trigger > results[2].trigger
    /\ AcceptedPos(results[1].trigger) < AcceptedPos(results[2].trigger)
    /\ busy_seen # {} \/ errors # <<>>

\* C4 (module docstring, lines 60-61): a press that arrives while a cycle is
\* being processed waits for it and is then processed, so a call that found
\* the guard held never ends without having run its cycle.
C4_BusyPressWaitsThenRuns ==
    \A t \in busy_seen : pc[t] = "done" => "capture" \in stages[t]

----------------------------------------------------------------------------
(* Vocabulary of the properties of the Tabular Value Locator.  It restates  *)
(* the row anchors, the same-line numeric tokens and the column centre as   *)
(* sets over the word list, apart from the loops of the functions above.    *)

Scored == words.ok /\ outcome # Unset

W == words.val

TotalSet == { i \in 1..Len(W) : _normalize(W[i].text) = TOTAL_LABEL }

AgatstonSet == { i \in 1..Len(W) : startswith(_normalize(W[i].text), AGATSTON_PREFIX) }

\* words whose first numeric match has a digit value
NumericSet == { i \in 1..Len(W) : strip_non_digits(numeric_search(W[i].text)) # <<>> }

\* the numeric tokens on the OCR line of the row anchor t, the anchor excluded
NumericOnLine(t) ==
    { i \in NumericSet \ {t} :
        W[i].line_num = W[t].line_num /\ W[i].block_num = W[t].block_num }

RECURSIVE SumX2(_)
SumX2(S) ==
    IF S = {} THEN 0
    ELSE LET i == CHOOSE j \in S : TRUE IN center_x2(W[i]) + SumX2(S \ {i})

\* |center_x - mean|, times 2 * Cardinality(AgatstonSet)
Dist(i) == Abs(Cardinality(AgatstonSet) * center_x2(W[i]) - SumX2(AgatstonSet))

\* the source's distance is d pixels
DistIs(i, d) == Dist(i) = 2 * Cardinality(AgatstonSet) * d

\* the row anchors that have a numeric token on their line, and the k-th of
\* them in word-list order
AnchorsWithNumber == { t \in TotalSet : NumericOnLine(t) # {} }

KthAnchor(k) ==
    CHOOSE t \in AnchorsWithNumber :
        Cardinality({ u \in AnchorsWithNumber : u < t }) = k - 1

MinDist(S) == CHOOSE d \in { Dist(i) : i \in S } : \A i \in S : d <= Dist(i)

----------------------------------------------------------------------------
(* C5 *)

\* C5 (as stated): with a Total word, an Agatston word and a numeric token on
\* the Total word's OCR line, the score is that numeric token's digit value,
\* for each such token.
C5_AsStated ==
    Scored /\ AgatstonSet # {} =>
        \A t \in TotalSet : \A i \in NumericOnLine(t) :
            outcome.ok /\ outcome.val = word_value(W[i])

\* C5 (amended): with a Total word, an Agatston word and a numeric token on
\* a Total word's OCR line, extract_total_agatston_score succeeds and returns
\* the digit value of one of the numeric tokens that share an OCR line with a
\* Total word; it is that token's value exactly when there is only one.
C5_SameLineValue ==
    Scored /\ AgatstonSet # {} /\ AnchorsWithNumber # {} =>
        /\ outcome.ok
        /\ \E t \in TotalSet : \E i \in NumericOnLine(t) :
               outcome.val = word_value(W[i])
        /\ \A t \in TotalSet : \A i \in NumericOnLine(t) :
               (UNION { NumericOnLine(u) : u \in TotalSet } = {i})
                   => outcome.val = word_value(W[i])

C5_Witness ==
    /\ Scored /\ AgatstonSet # {} /\ outcome.ok
    /\ \E t \in TotalSet : \E i \in NumericOnLine(t) :
          /\ UNION { NumericOnLine(u) : u \in TotalSet } = {i}
          /\ outcome.val = word_value(W[i])
          /\ \E j \in NumericSet : W[j].line_num = W[t].line_num /\ j # i

----------------------------------------------------------------------------
(* C6 *)

\* C6: for every row anchor, the candidate extract_candidates contributes
\* has the smallest horizontal distance to the Agatston column centre among
\* the numeric tokens on the anchor's OCR line and carries the value of a
\* token at that distance (of the closest token when it is unique); with
\* tokens at distances 50, 5 and 20 it is the token at distance 5.
C6_ClosestPerAnchor ==
    Scored /\ TotalSet # {} /\ AgatstonSet # {} =>
        /\ Len(outcome.candidates) = Cardinality(AnchorsWithNumber)
        /\ \A k \in 1..Len(outcome.candidates) :
              LET t == KthAnchor(k)
                  c == outcome.candidates[k]
              IN  /\ c.distance = MinDist(NumericOnLine(t))
                  /\ \E i \in NumericOnLine(t) :
                        Dist(i) = c.distance /\ word_value(W[i]) = c.value
                  /\ \A i \in NumericOnLine(t) :
                        (\E j \in NumericOnLine(t) : DistIs(j, 50)) /\ DistIs(i, 5)
                            => c.value = word_value(W[i])

C6_Witness ==
    /\ Scored /\ AgatstonSet # {} /\ Len(outcome.candidates) = 1
    /\ \E t \in TotalSet :
          /\ Cardinality(NumericOnLine(t)) = 3
          /\ \E i, j, k \in NumericOnLine(t) :
                DistIs(i, 50) /\ DistIs(j, 5) /\ DistIs(k, 20)
                /\ outcome.candidates[1].value = word_value(W[j])
                /\ word_value(W[j]) = 12345

----------------------------------------------------------------------------
(* C7 *)

\* C7: when the same-row search produced candidates, the score is the value
\* of the candidate with the minimum distance, and of the first such
\* candidate in row-anchor order when several share the minimum.
C7_MinDistanceFirstAnchor ==
    Scored /\ outcome.candidates # <<>> =>
        LET cs == outcome.candidates
            first == CHOOSE k \in 1..Len(cs) :
                        /\ \A j \in 1..Len(cs) : cs[k].distance <= cs[j].distance
                        /\ \A j \in 1..(k - 1) : cs[j].distance > cs[k].distance
        IN  outcome.ok /\ outcome.val = cs[first].value

\* two row anchors whose candidates tie at the minimum with different values
C7_Witness ==
    /\ Scored /\ outcome.ok /\ Len(outcome.candidates) = 2
    /\ outcome.candidates[1].distance = outcome.candidates[2].distance
    /\ outcome.candidates[1].value # outcome.candidates[2].value
    /\ outcome.val = outcome.candidates[1].value
    /\ outcome.val = word_value(W[CHOOSE i \in NumericOnLine(KthAnchor(1)) : TRUE])

----------------------------------------------------------------------------
(* C8 *)

\* C8: when no word's normalized text equals "total", the score extraction
\* fails with the row-label-not-found error, whatever else the words are.
C8_RowLabelNotFound ==
    Scored /\ TotalSet = {} =>
        ~outcome.ok /\ outcome.err = "RowLabelNotFound"

\* no Total, but a word starting with "total", a header and a number
C8_Witness ==
    /\ Scored /\ TotalSet = {} /\ ~outcome.ok
    /\ \E i \in 1..Len(W) : startswith(_normalize(W[i].text), TOTAL_LABEL)
    /\ AgatstonSet # {} /\ NumericSet # {}

----------------------------------------------------------------------------
(* C9 *)

\* C9: find_agatston_column_center returns the arithmetic mean of center_x
\* over all words whose normalized text starts with "agatston", and raises
\* the column-label-not-found error when there is none.
C9_ColumnCenterIsMean ==
    words.ok /\ centerRes # Unset =>
        IF AgatstonSet = {}
        THEN ~centerRes.ok /\ centerRes.err = "ColumnLabelNotFound"
        ELSE /\ centerRes.ok
             /\ centerRes.val.n > 0
             /\ centerRes.val.sum2 * Cardinality(AgatstonSet)
                    = SumX2(AgatstonSet) * centerRes.val.n

\* two header tokens at different x: the mean is neither of them
C9_Witness ==
    /\ words.ok /\ centerRes # Unset /\ centerRes.ok
    /\ Cardinality(AgatstonSet) = 2
    /\ \A i \in AgatstonSet : centerRes.val.sum2 # centerRes.val.n * center_x2(W[i])

----------------------------------------------------------------------------
(* C10 *)

\* C10: the fallback search decides the result only if no row anchor has a
\* numeric token on its OCR line; otherwise the result is returned by the
\* same-row branch and is the value of a same-line token.
C10_FallbackOnlyWithoutCandidates ==
    Scored /\ TotalSet # {} /\ AgatstonSet # {} =>
        /\ (outcome.path = "fallback") <=> (AnchorsWithNumber = {})
        /\ AnchorsWithNumber # {} =>
              /\ outcome.path = "same_row"
              /\ \E t \in TotalSet : \E i \in NumericOnLine(t) :
                    outcome.val = word_value(W[i])

\* a number near the top edge is closer to the column than the same-line one
C10_Witness ==
    /\ Scored /\ outcome.ok /\ outcome.path = "same_row"
    /\ \E t \in TotalSet : \E i \in NumericOnLine(t) : \E j \in NumericSet :
          /\ Abs(center_y2(W[j])) <= 2 * Y_THRESHOLD
          /\ Dist(j) < Dist(i)
          /\ \A u \in TotalSet : j \notin NumericOnLine(u)
          /\ \A v \in AnchorsWithNumber : \A m \in NumericOnLine(v) :
                word_value(W[m]) # word_value(W[j])
          /\ outcome.val = word_value(W[i])

----------------------------------------------------------------------------
(* C11 *)

\* the words fallback_search may return: a digit value and a centre within
\* the y threshold of the top edge
FallbackSet == { i \in NumericSet : Abs(center_y2(W[i])) <= 2 * 30 }

\* C11: when no row anchor has a numeric token on its line, the result is
\* the value of a word of FallbackSet at the smallest horizontal distance to
\* the column centre, and the no-intersection-value error iff FallbackSet is
\* empty; a value of 0 is returned like any other.
C11_FallbackClosestOrError ==
    Scored /\ TotalSet # {} /\ AgatstonSet # {} /\ AnchorsWithNumber = {} =>
        IF FallbackSet = {}
        THEN ~outcome.ok /\ outcome.err = "NoIntersectionValue"
        ELSE /\ outcome.ok
             /\ \E i \in FallbackSet :
                   /\ Dist(i) = MinDist(FallbackSet)
                   /\ outcome.val = word_value(W[i])

\* the fallback returns 0 although a number just below the threshold line is
\* closer to the column
C11_Witness ==
    /\ Scored /\ outcome.ok /\ outcome.path = "fallback" /\ outcome.val = 0
    /\ \E i \in FallbackSet : \E j \in NumericSet \ FallbackSet :
          /\ word_value(W[i]) = 0
          /\ Dist(j) < Dist(i)

----------------------------------------------------------------------------
(* C12, C13: the value taken from a token's text (SpecNumeric) *)

\* the token whose text varies
NumTok == raw[3]

\* position of the first digit, and the end of the run of digits, commas and
\* periods that starts there: the extent of the first numeric match
FirstDigit(t) == CHOOSE p \in 1..Len(t) :
                    IsReDigit(t[p]) /\ \A k \in 1..(p - 1) : ~IsReDigit(t[k])

MatchEnd(t) ==
    CHOOSE e \in FirstDigit(t)..Len(t) :
        /\ \A k \in FirstDigit(t)..e : IsReDigit(t[k]) \/ t[k] \in {",", "."}
        /\ e < Len(t) => ~(IsReDigit(t[e + 1]) \/ t[e + 1] \in {",", "."})

\* the decimal number written by the characters 0-9 of the first numeric
\* match, every other character of the match left out
RECURSIVE DigitSum(_, _)
DigitSum(t, S) ==
    IF S = {} THEN 0
    ELSE LET k == CHOOSE j \in S : TRUE
             right == Cardinality({ j \in (k + 1)..MatchEnd(t) : IsAsciiDigit(t[j]) })
         IN  DigitValue(t[k]) * Pow10(right) + DigitSum(t, S \ {k})

ConcatenatedDigits(t) ==
    DigitSum(t, { k \in FirstDigit(t)..MatchEnd(t) : IsAsciiDigit(t[k]) })

\* C12: the value taken from a numeric token is the integer written by all
\* digit characters of the first numeric match of its text, periods and
\* commas removed, nothing rounded: "1,234.5" is 12345, "1.5" is 15 and
\* "1,234" is 1234.
C12_DigitsConcatenated ==
    Scored /\ outcome.ok =>
        /\ outcome.val = ConcatenatedDigits(NumTok.text)
        /\ NumTok.text = <<"1",",","2","3","4",".","5">> => outcome.val = 12345
        /\ NumTok.text = <<"1",".","5">> => outcome.val = 15
        /\ NumTok.text = <<"1",",","2","3","4">> => outcome.val = 1234

C12_Witness ==
    /\ Scored /\ outcome.ok /\ outcome.path = "same_row"
    /\ NumTok.text = <<"1",",","2","3","4",".","5">>
    /\ outcome.val = 12345

\* C13: every returned value is a non-negative integer; a sign in front of
\* the digits is matched and dropped, so "-12" gives 12 and a signed token
\* gives what the same token without the sign gives, on either path.
C13_ValueNonNegative ==
    Scored /\ outcome.ok =>
        /\ outcome.val \in Nat
        /\ NumTok.text = <<"-","1","2">> => outcome.val = 12
        /\ (NumTok.text[1] \in {"-", "+"} /\ Len(NumTok.text) > 1
                /\ IsAsciiDigit(NumTok.text[2]))
              => outcome.val = ConcatenatedDigits(Tail(NumTok.text))

C13_Witness ==
    /\ Scored /\ outcome.ok /\ outcome.path = "fallback"
    /\ NumTok.text = <<"-","1","2">>
    /\ outcome.val = 12

----------------------------------------------------------------------------
(* C14: extract_words (SpecExtract) *)

\* raw tokens with a character that is not whitespace
Keep == { k \in 1..Len(raw) : \E j \in 1..Len(raw[k].text) : ~IsSpace(raw[k].text[j]) }

\* the text between the first and the last character that is not whitespace
Trimmed(t) ==
    LET ink == { j \in 1..Len(t) : ~IsSpace(t[j]) }
        first == CHOOSE j \in ink : \A i \in ink : j <= i
        last == CHOOSE j \in ink : \A i \in ink : i <= j
    IN  SubSeq(t, first, last)

\* C14: extract_words returns exactly the raw tokens whose trimmed text is
\* non-empty, in their original relative order and with the trimmed text, and
\* fails with the no-text-recognized error when none is left.
C14_WordsAreTrimmedNonEmptyTokens ==
    words # Unset =>
        IF Keep = {}
        THEN words = Raise("NoTextRecognized")
        ELSE /\ words.ok
             /\ Len(words.val) = Cardinality(Keep)
             /\ \A k \in Keep :
                   LET rank == Cardinality({ j \in Keep : j <= k })
                   IN  words.val[rank] = [raw[k] EXCEPT !.text = Trimmed(raw[k].text)]

C14_Witness ==
    /\ words # Unset /\ words.ok
    /\ Len(words.val) >= 2
    /\ \E k \in 1..Len(raw) : raw[k].text = <<>>
    /\ \E k \in 1..Len(raw) : raw[k].text # <<>> /\ k \notin Keep
    /\ \E k \in Keep : Trimmed(raw[k].text) # raw[k].text

----------------------------------------------------------------------------
(* Vocabulary of the claims about the pattern matcher *)

\* the loaded patterns, in their stored order
Stored == loaded.val.patterns

Matched == mpc \in {"detect_pattern", "done"}

Detected == mpc = "done"

\* the pixel an anchor points at, relative to the captured image
RelXY(a) == <<a.x - shot.origin[1], a.y - shot.origin[2]>>

InsideImage(a) ==
    /\ RelXY(a)[1] \in 0..(shot.image.size[1] - 1)
    /\ RelXY(a)[2] \in 0..(shot.image.size[2] - 1)

ChannelsClose(actual, expected, tolerance) ==
    \A ch \in 1..3 : Abs(actual[ch] - expected[ch]) <= tolerance

AnchorPasses(a) ==
    /\ InsideImage(a)
    /\ ChannelsClose(shot.image.pixel[RelXY(a)], a.color, a.tolerance)

PatternPasses(p) == \A i \in 1..Len(p.anchors) : AnchorPasses(p.anchors[i])

PassingSet == { k \in 1..Len(Stored) : PatternPasses(Stored[k]) }

Least(S) == CHOOSE k \in S : \A j \in S : k <= j

\* the largest channel difference between an anchor's colour and its pixel
OffBy(a, d) ==
    /\ \E ch \in 1..3 : Abs(shot.image.pixel[RelXY(a)][ch] - a.color[ch]) = d
    /\ \A ch \in 1..3 : Abs(shot.image.pixel[RelXY(a)][ch] - a.color[ch]) <= d

\* the case of two patterns, the first with one anchor that is 30 off with
\* tolerance 20, the second without anchors
ThirtyOffThenCatchAll ==
    /\ Len(Stored) = 2
    /\ Len(Stored[1].anchors) = 1
    /\ InsideImage(Stored[1].anchors[1])
    /\ OffBy(Stored[1].anchors[1], 30)
    /\ Stored[1].anchors[1].tolerance = 20
    /\ Stored[2].anchors = <<>>

\* C15: detect_pattern evaluates the patterns in their stored order and
\* returns the first pattern that matches without evaluating a later one;
\* it fails with the no-pattern-matched error iff no pattern matches; in the
\* case of a first pattern 30 off with tolerance 20 and a second pattern
\* without anchors the second is returned.
C15_FirstMatchInStoredOrder ==
    Detected =>
        /\ \A k \in 1..Len(detection.runs) : detection.runs[k] = match_runs[k]
        /\ IF PassingSet = {}
           THEN /\ detection.outcome = Raise("NoPatternMatched")
                /\ Len(detection.runs) = Len(Stored)
           ELSE /\ detection.outcome = Ok(Stored[Least(PassingSet)])
                /\ Len(detection.runs) = Least(PassingSet)
        /\ ThirtyOffThenCatchAll => detection.outcome = Ok(Stored[2])

C15_Witness ==
    /\ Detected
    /\ ThirtyOffThenCatchAll
    /\ detection.outcome = Ok(Stored[2])
    /\ Len(detection.runs) = 2

----------------------------------------------------------------------------
(* C16, C17, C18: PatternDefinition.matches (SpecMatch) *)

FailingAnchors(p) == { i \in 1..Len(p.anchors) : ~AnchorPasses(p.anchors[i]) }

\* C16: matches returns true iff every anchor of the pattern is inside the
\* image and its sampled pixel is within tolerance of the expected colour; a
\* pattern without anchors matches; the anchors are taken in order and the
\* evaluation stops at the first anchor that fails.
C16_MatchesIffEveryAnchorPasses ==
    Matched =>
        \A k \in 1..Len(Stored) :
            LET p == Stored[k]
                run == match_runs[k]
            IN  /\ ~run.raised
                /\ run.result <=> PatternPasses(p)
                /\ p.anchors = <<>> => run.result /\ run.examined = 0
                /\ run.examined = IF FailingAnchors(p) = {} THEN Len(p.anchors)
                                  ELSE Least(FailingAnchors(p))
                /\ run.sampled =
                      [i \in 1..Len(run.sampled) |-> RelXY(p.anchors[i])]

C16_Witness ==
    /\ Matched
    /\ \E k \in 1..Len(Stored) :
          /\ Len(Stored[k].anchors) = 2
          /\ ~AnchorPasses(Stored[k].anchors[1])
          /\ AnchorPasses(Stored[k].anchors[2])
          /\ ~match_runs[k].result
          /\ match_runs[k].examined = 1

OutsideAnchors(p) == { i \in 1..Len(p.anchors) : ~InsideImage(p.anchors[i]) }

\* C17: a pattern with an anchor whose coordinate minus the capture origin
\* is outside 0 <= x < width or 0 <= y < height does not match, whatever
\* the colours and the tolerance, and no pixel outside the image is sampled.
C17_OutsideAnchorNeverMatches ==
    Matched =>
        \A k \in 1..Len(Stored) :
            /\ OutsideAnchors(Stored[k]) # {} => ~match_runs[k].result
            /\ ~match_runs[k].raised
            /\ \A i \in 1..Len(match_runs[k].sampled) :
                  /\ match_runs[k].sampled[i][1] \in 0..(shot.image.size[1] - 1)
                  /\ match_runs[k].sampled[i][2] \in 0..(shot.image.size[2] - 1)

\* an anchor just right of the image whose colour test would pass at any
\* pixel, behind an anchor that passes
C17_Witness ==
    /\ Matched
    /\ \E k \in 1..Len(Stored) :
          /\ Len(Stored[k].anchors) = 2
          /\ AnchorPasses(Stored[k].anchors[1])
          /\ RelXY(Stored[k].anchors[2]) = <<shot.image.size[1], 0>>
          /\ Stored[k].anchors[2].tolerance = 255
          /\ ~match_runs[k].result
          /\ match_runs[k].sampled = <<RelXY(Stored[k].anchors[1])>>

\* the colours and tolerances the state holds
StateColors ==
    { shot.image.pixel[xy] : xy \in DOMAIN shot.image.pixel }
    \cup UNION { { Stored[k].anchors[i].color : i \in 1..Len(Stored[k].anchors) } :
                 k \in 1..Len(Stored) }

StateTolerances ==
    UNION { { Stored[k].anchors[i].tolerance : i \in 1..Len(Stored[k].anchors) } :
            k \in 1..Len(Stored) }

\* C18: _color_within_tolerance(actual, expected, tolerance) is true iff
\* each of the three channel differences |actual[i] - expected[i]| is at
\* most the tolerance; a difference equal to the tolerance passes.
C18_WithinToleranceIffEveryChannel ==
    Matched =>
        /\ \A actual \in StateColors, expected \in StateColors,
              tolerance \in StateTolerances :
              _color_within_tolerance(actual, expected, tolerance)
                  <=> ChannelsClose(actual, expected, tolerance)
        /\ \A k \in 1..Len(Stored) :
              (Len(Stored[k].anchors) = 1 /\ InsideImage(Stored[k].anchors[1])) =>
                  (match_runs[k].result <=>
                      ChannelsClose(shot.image.pixel[RelXY(Stored[k].anchors[1])],
                                    Stored[k].anchors[1].color,
                                    Stored[k].anchors[1].tolerance))

\* one channel differs by exactly the tolerance and the anchor passes
C18_Witness ==
    /\ Matched
    /\ \E k \in 1..Len(Stored) :
          /\ Len(Stored[k].anchors) = 1
          /\ InsideImage(Stored[k].anchors[1])
          /\ Stored[k].anchors[1].tolerance > 0
          /\ OffBy(Stored[k].anchors[1], Stored[k].anchors[1].tolerance)
          /\ match_runs[k].result

----------------------------------------------------------------------------
(* C19, C20: the loaded pattern list (SpecPattern) *)

\* the pattern objects in the order from_sources reads them: those of the
\* config document, then the pattern files
ConfigDocs == IF sources.config = "file" THEN sources.data["patterns"] ELSE <<>>

LoadedDocs ==
    ConfigDocs \o [k \in 1..Len(sources.pattern_files) |-> sources.pattern_files[k].data]

DocName(doc) == IF "name" \in DOMAIN doc THEN doc["name"] ELSE UNNAMED_PATTERN

DocPriority(doc) == IF "priority" \in DOMAIN doc THEN doc["priority"] ELSE 0

DocAnchors(doc) == IF "anchors" \in DOMAIN doc THEN doc["anchors"] ELSE <<>>

\* name a comes before name b: at the first position where they differ a has
\* the smaller character, or a ends there and b does not
NameBefore(a, b) ==
    \E d \in 0..Min(Len(a), Len(b)) :
        /\ \A k \in 1..d : a[k] = b[k]
        /\ \/ d = Len(a) /\ d < Len(b)
           \/ d < Len(a) /\ d < Len(b) /\ ord(a[d + 1]) < ord(b[d + 1])

\* one-to-one maps from the load positions onto the stored positions
Placements ==
    { f \in [1..Len(LoadedDocs) -> 1..Len(Stored)] :
        \A i, j \in 1..Len(LoadedDocs) : i # j => f[i] # f[j] }

\* C19: after from_sources the pattern list, made of the patterns of the
\* config document followed by those of the pattern files, is in ascending
\* priority and, for equal priority, ascending name, whatever the order of
\* loading was; detect_pattern tries the patterns in that order.
C19_PatternsSortedByPriorityThenName ==
    loaded.ok =>
        /\ Len(Stored) = Len(LoadedDocs)
        /\ \E f \in Placements :
              \A d \in 1..Len(LoadedDocs) :
                  /\ Stored[f[d]].name = DocName(LoadedDocs[d])
                  /\ Stored[f[d]].priority = DocPriority(LoadedDocs[d])
                  /\ Len(Stored[f[d]].anchors) = Len(DocAnchors(LoadedDocs[d]))
        /\ \A i, j \in 1..Len(Stored) :
              i < j =>
                  /\ Stored[i].priority <= Stored[j].priority
                  /\ Stored[i].priority = Stored[j].priority
                        => ~NameBefore(Stored[j].name, Stored[i].name)
        /\ Detected =>
              \A k \in 1..Len(detection.runs) :
                  detection.runs[k] = match_runs[k]

\* three patterns loaded in an order that is not the stored one, two of
\* them of equal priority
C19_Witness ==
    /\ loaded.ok /\ Detected
    /\ Len(Stored) = 3
    /\ Len(detection.runs) = 3
    /\ \E i, j \in 1..3 :
          /\ i < j
          /\ DocPriority(LoadedDocs[j]) < DocPriority(LoadedDocs[i])
    /\ \E i, j \in 1..3 :
          /\ i < j
          /\ DocPriority(LoadedDocs[j]) = DocPriority(LoadedDocs[i])
          /\ NameBefore(DocName(LoadedDocs[j]), DocName(LoadedDocs[i]))
    /\ ConfigDocs # <<>> /\ sources.pattern_files # <<>>

\* C20: loading a pattern object ignores unknown fields, gives an anchor
\* without tolerance the tolerance 20 and a pattern without priority the
\* priority 0, and keeps name, priority, anchor coordinates, colours,
\* tolerances and the order of the anchors as given.
C20_LoadedAsGiven ==
    loaded.ok =>
        \E f \in Placements :
            \A d \in 1..Len(LoadedDocs) :
                LET doc == LoadedDocs[d]
                    p == Stored[f[d]]
                IN  /\ DOMAIN p = {"name", "priority", "anchors"}
                    /\ "name" \in DOMAIN doc => p.name = doc["name"]
                    /\ p.priority = IF "priority" \in DOMAIN doc
                                    THEN doc["priority"] ELSE 0
                    /\ Len(p.anchors) = Len(DocAnchors(doc))
                    /\ \A i \in 1..Len(p.anchors) :
                          LET a == p.anchors[i]
                              given == DocAnchors(doc)[i]
                          IN  /\ DOMAIN a =
                                    {"x", "y", "color", "tolerance", "description"}
                              /\ a.x = given["x"]
                              /\ a.y = given["y"]
                              /\ a.color = given["color"]
                              /\ a.tolerance = IF "tolerance" \in DOMAIN given
                                               THEN given["tolerance"] ELSE 20

\* a pattern object without priority whose anchors come with an unknown
\* field and without tolerance, next to one with an unknown field
C20_Witness ==
    /\ loaded.ok
    /\ \E d \in 1..Len(LoadedDocs) :
          /\ "priority" \notin DOMAIN LoadedDocs[d]
          /\ Len(DocAnchors(LoadedDocs[d])) = 2
          /\ "tolerance" \notin DOMAIN DocAnchors(LoadedDocs[d])[2]
          /\ "sampled_at" \in DOMAIN DocAnchors(LoadedDocs[d])[1]
    /\ \E d \in 1..Len(LoadedDocs) : "comment" \in DOMAIN LoadedDocs[d]
    /\ \E k \in 1..Len(Stored) :
          /\ Stored[k].priority = 0
          /\ Len(Stored[k].anchors) = 2
          /\ Stored[k].anchors[1].tolerance = 30
          /\ Stored[k].anchors[2].tolerance = 20

----------------------------------------------------------------------------
(* C21: anchors whose color has not three elements (SpecPattern) *)

Loaded == mpc # "from_sources"

BadAnchors(doc) ==
    { i \in 1..Len(DocAnchors(doc)) : Len(DocAnchors(doc)[i]["color"]) # 3 }

BadDocs == { d \in 1..Len(LoadedDocs) : BadAnchors(LoadedDocs[d]) # {} }

\* nothing that from_sources reads before the d-th pattern object is missing
ReadUpTo(d) ==
    /\ sources.config # "missing"
    /\ \A k \in 1..(d - Len(ConfigDocs)) : sources.pattern_files[k].exists

\* C21: loading an anchor whose color array has not exactly three elements
\* fails with the invalid-anchor error and yields no anchor, so no pattern
\* with such an anchor is ever in the loaded pattern list.
C21_BadColorNeverLoaded ==
    Loaded =>
        /\ BadDocs # {} => ~loaded.ok
        /\ (BadDocs # {} /\ ReadUpTo(Least(BadDocs))) => loaded = Raise("InvalidAnchor")
        /\ loaded.ok =>
              \A k \in 1..Len(Stored) : \A i \in 1..Len(Stored[k].anchors) :
                  Len(Stored[k].anchors[i].color) = 3

\* a four-element color behind a pattern that loads, and a two-element one
C21_Witness ==
    /\ Loaded
    /\ loaded = Raise("InvalidAnchor")
    /\ Len(LoadedDocs) = 3
    /\ BadDocs = {2, 3}
    /\ Len(DocAnchors(LoadedDocs[2])[1]["color"]) = 4
    /\ \E i \in BadAnchors(LoadedDocs[3]) : Len(DocAnchors(LoadedDocs[3])[i]["color"]) = 2

----------------------------------------------------------------------------
(* C22, C26: failures and the order of the steps inside a cycle (Spec) *)

Failed(t) == local[t].exc # <<>>

ErrorsOf(t) == { i \in 1..Len(errors) : errors[i].trigger = t }

\* the steps in which a cycle can fail
CaptureErrors == {"InvalidMonitorRegion", "ScreenshotFailed"}

OcrErrors == {"TesseractError", "NoTextRecognized"}

LocationErrors == {"RowLabelNotFound", "ColumnLabelNotFound", "NoIntersectionValue"}

\* C22: a failure of capture, pattern detection, OCR word extraction or
\* value location inside process_once is reported once, process_once
\* returns normally, no result is shown for that cycle, and the guard is not
\* left held, so that later triggers are accepted.
C22_FailureNotFatal ==
    /\ \A t \in Threads :
          Failed(t) =>
              /\ local[t].exc[1] \in
                    CaptureErrors \cup {"NoPatternMatched"} \cup OcrErrors
                    \cup LocationErrors
              /\ t \in AcceptedSet
              /\ pc[t] \in {"except", "finally", "done"}
              /\ ~Emitted(t)
              /\ "show_result" \notin stages[t]
              /\ pc[t] = "except" => ErrorsOf(t) = {}
              /\ pc[t] \in {"finally", "done"} =>
                    /\ Cardinality(ErrorsOf(t)) = 1
                    /\ \A i \in ErrorsOf(t) : errors[i].exc = local[t].exc[1]
    /\ InSection = {} => ~_lock
    /\ \A u \in Threads : (pc[u] = "done" /\ u \notin AcceptedSet) => u \in busy_seen

\* a cycle that failed in the capture, one that failed in the detection
\* and a third, accepted after both, that showed its result
C22_Witness ==
    /\ Len(accepted) = 3
    /\ Failed(accepted[1]) /\ local[accepted[1]].exc[1] \in CaptureErrors
    /\ Failed(accepted[2]) /\ local[accepted[2]].exc[1] = "NoPatternMatched"
    /\ Emitted(accepted[3])
    /\ \A t \in Threads : pc[t] = "done"
    /\ Len(errors) = 2

\* what the OCR engine reads from the screenshot of thread t gives a score
ScreenReadable(t) ==
    LET w == extract_words(Screens[local[t].screenshot[1]].tokens)
    IN  w.ok /\ extract_total_agatston_score(w.val).ok

\* C26: within a cycle show_result comes after detect_pattern returned a
\* pattern and after extract_total_agatston_score returned a value, in that
\* order; when no pattern matches, neither OCR word extraction nor value
\* location runs and no score is shown, whatever the screen holds.
C26_ShowOnlyAfterPatternAndScore ==
    \A t \in Threads :
        /\ "show_result" \in stages[t] =>
              "extract_score" \in stages[t] /\ local[t].score # <<>>
        /\ "extract_score" \in stages[t] => "extract_words" \in stages[t]
        /\ "extract_words" \in stages[t] =>
              "detect" \in stages[t] /\ local[t].pattern # <<>>
        /\ "detect" \in stages[t] => "capture" \in stages[t]
        /\ Emitted(t) => "show_result" \in stages[t]
        /\ (Failed(t) /\ local[t].exc[1] = "NoPatternMatched") =>
              /\ stages[t] = {"capture", "detect"}
              /\ local[t].words = <<>> /\ local[t].score = <<>>
              /\ ~Emitted(t)

\* no pattern matched a screen from which a score could have been read
C26_Witness ==
    \E t \in Threads :
        /\ pc[t] = "done"
        /\ Failed(t) /\ local[t].exc[1] = "NoPatternMatched"
        /\ ScreenReadable(t)
        /\ stages[t] = {"capture", "detect"}
        /\ results = <<>>

----------------------------------------------------------------------------
(* C25: the guard is released (SpecLive) *)

\* a trigger that reaches the guard while no cycle is running is accepted
FreeGuardAccepts ==
    \A t \in Threads :
        (pc[t] = "acquire" /\ pc'[t] # "acquire" /\ InSection = {})
            => (pc'[t] = "capture" /\ t \notin busy_seen')

\* C25: every accepted cycle eventually releases the guard, whether it ends
\* in success or in a failure of capture, detection, OCR or location; when
\* the cycles that were started have ended the guard is free, and the next
\* trigger is accepted rather than rejected as busy.
C25_GuardEventuallyReleased ==
    /\ _lock ~> ~_lock
    /\ [](InSection = {} => ~_lock)
    /\ [][FreeGuardAccepts]_vars

\* after a cycle that failed in the OCR or the location and one that showed
\* its result, a third trigger has been accepted; none was rejected
C25_Witness ==
    /\ Len(accepted) = 3
    /\ Failed(accepted[1]) /\ local[accepted[1]].exc[1] \in OcrErrors \cup LocationErrors
    /\ Emitted(accepted[2])
    /\ pc[accepted[1]] = "done" /\ pc[accepted[2]] = "done"
    /\ pc[accepted[3]] = "capture"
    /\ _lock
    /\ busy_seen = {}

----------------------------------------------------------------------------
(* C23: every score is graded and shown (SpecClassify) *)

\* sub occurs in text as a run of consecutive elements
Contains(text, sub) ==
    \E i \in 0..(Len(text) - Len(sub)) : SubSeq(text, i + 1, i + Len(sub)) = sub

\* the score written as a plain decimal number
DecimalText(v) ==
    IF v.exp = 0 THEN digits_of(v.num)
    ELSE LET fd == digits_of(v.num % Pow10(v.exp))
         IN  digits_of(v.num \div Pow10(v.exp)) \o <<".">>
             \o Zeros(v.exp - Len(fd)) \o fd

\* the five grades: 0; 1-10; 11-100; 101-400; above 400
InGradeRange(g, v) ==
    CASE g = 1 -> v.num = 0
      [] g = 2 -> int_le(1, v) /\ le_int(v, 10)
      [] g = 3 -> int_le(11, v) /\ le_int(v, 100)
      [] g = 4 -> int_le(101, v) /\ le_int(v, 400)
      [] g = 5 -> ~le_int(v, 400)

Classified == cpc = "done" /\ extracted.ok /\ extracted.val # <<>>

\* C23: _classify_score assigns every score that _extract_from_roi can
\* return, integer or decimal, to one of the five grades (to the grade whose
\* range holds the score, if one does) and the returned text includes the
\* score.
C23_EveryScoreGraded ==
    Classified =>
        /\ classification.ok
        /\ \E g \in 1..5 :
              /\ Contains(classification.val, <<DETAILS[g]>>)
              /\ \A h \in 1..5 : InGradeRange(h, extracted.val[1]) => h = g
        /\ Contains(classification.val, DecimalText(extracted.val[1]))

----------------------------------------------------------------------------
(* C24: the order of the ROIs and the text sent per press (SpecMaster) *)

\* the press that was handled last is over
PressEnded == hpc \in {"idle", "raised"}

SentFor(k) == { i \in 1..Len(sent) : sent[i].press = k }

\* the call returned None
YieldedNoScore(call) == call.result.ok /\ call.result.val = <<>>

\* C24: on each press ROI_1 is tried first and ROI_2 only if ROI_1 yielded no
\* score; a score of 0 from ROI_1 counts as found; and exactly one text is
\* sent to the target field per press, the classification when a score was
\* found and the failure message otherwise.
C24_OneTextPerPress ==
    /\ Len(tried) <= 2
    /\ Len(tried) >= 1 => tried[1].roi = 1
    /\ Len(tried) = 2 => tried[2].roi = 2 /\ YieldedNoScore(tried[1])
    /\ (Len(tried) >= 1 /\ tried[1].result.ok
            /\ tried[1].result.val = <<[num |-> 0, exp |-> 0]>>) => Len(tried) = 1
    /\ PressEnded =>
          /\ \A k \in 1..hotkeys : Cardinality(SentFor(k)) = 1
          /\ hotkeys >= 1 =>
                \A i \in SentFor(hotkeys) :
                    sent[i].message = IF score # <<>>
                                      THEN _classify_score(program, score[1])
                                      ELSE FAILURE_TEXT

----------------------------------------------------------------------------
(* C27: the two fat values come from one region (SpecFat) *)

NoValues == [sub |-> <<>>, vis |-> <<>>]

BothValues(r) == r.sub # <<>> /\ r.vis # <<>>

\* C27: the subcutaneous and visceral values returned by extract_fat_values
\* both come from REGION_1, or both from REGION_2 and then REGION_1 yielded
\* nothing, or both are None; never is exactly one of them None.
C27_NeverMixesRegions ==
    fpc = "done" =>
        LET r1 == region_values[1]
            r2 == region_values[2]
            v == fat_values.val
        IN  /\ \/ BothValues(r1) /\ v = r1
               \/ r1 = NoValues /\ BothValues(r2) /\ v = r2
               \/ v = NoValues
            /\ (v.sub = <<>>) <=> (v.vis = <<>>)

\* REGION_1 yielded nothing and REGION_2 two areas, which are returned
C27_Witness ==
    /\ fpc = "done"
    /\ region_values[1] = NoValues
    /\ BothValues(region_values[2])
    /\ region_values[2].sub # region_values[2].vis
    /\ fat_values.val = region_values[2]

----------------------------------------------------------------------------
(* C28: the two-click cycle of roi_finder (SpecRoi) *)

IsLeftPress(e) == e.button = "left" /\ e.pressed

LeftPresses == { i \in 1..Len(events) : IsLeftPress(events[i]) }

\* the lines printed by the step
NewLines == SubSeq(printed', Len(printed) + 1, Len(printed'))

RoiLines(lines) == { i \in 1..Len(lines) : lines[i].line = "roi" }

\* what the event handled by the step does to coords and to the output
OnClickStep ==
    Len(events') > Len(events) =>
        LET e == events'[Len(events')]
        IN  IF ~IsLeftPress(e)
            THEN coords' = coords /\ printed' = printed
            ELSE IF coords = <<>>
            THEN /\ coords' = ("top_left" :> <<e.x, e.y>>)
                 /\ RoiLines(NewLines) = {}
            ELSE /\ coords' = <<>>
                 /\ RoiLines(NewLines) # {}
                        <=> (e.x > coords["top_left"][1] /\ e.y > coords["top_left"][2])

\* C28: after any sequence of mouse events coords is empty or holds only
\* 'top_left'; left-button presses alternate between recording the top-left
\* corner and completing and resetting an ROI; an ROI is printed only when
\* width > 0 and height > 0; right- and middle-button events and releases
\* leave the state unchanged.
C28_TwoClickCycle ==
    /\ [](DOMAIN coords \subseteq {"top_left"})
    /\ [](has_key(coords, "top_left") <=> Cardinality(LeftPresses) % 2 = 1)
    /\ [](\A i \in RoiLines(printed) : printed[i].width > 0 /\ printed[i].height > 0)
    /\ [][OnClickStep]_vars

\* an ROI was printed after two left presses; a right-button press followed
\* and coords is empty
C28_Witness ==
    /\ Len(events) = 3
    /\ IsLeftPress(events[1]) /\ IsLeftPress(events[2])
    /\ events[3].button = "right" /\ events[3].pressed
    /\ RoiLines(printed) # {}
    /\ coords = <<>>

====
